---- MODULE Spec2Model ----
(***************************************************************************)
(* Job-application autofill: the form-field classifier (FormDetector), the *)
(* site adapters layered on it (Greenhouse, Lever, Workday) and the resume *)
(* section splitter (ResumeParser).                                        *)
(*                                                                         *)
(* Strings are TLA+ strings; substring tests are computed position by      *)
(* position.  Confidence values are kept in hundredths (0.5 is 50, 0.15 is *)
(* 15, 1.0 is 100) so that sums and the cap are exact integers.            *)
(***************************************************************************)
EXTENDS Integers, Sequences, FiniteSets, TLC

VARIABLES
    metadata,        \* the FieldMetadata handed to the classifier
    classification,  \* its ClassificationResult, or NoResult before the call
    page,            \* the DOM: main document and iframe documents
    entryPoint,      \* the detection entry point that was called, or "none"
    detected,        \* what the last detection entry point returned
    input,           \* the argument of ResumeParser.parse
    outcome,         \* what ResumeParser.parse produced, or NotRun
    contentScript,   \* the content script of a tab: globals, callbacks, messages
    popup            \* the popup: its form, its buttons and chrome.storage.local

vars == << metadata, classification, page, entryPoint, detected, input, outcome,
           contentScript, popup >>

(***************************************************************************)
(* String helpers (String.prototype.includes)                              *)
(***************************************************************************)
Contains(s, p) ==
    \/ Len(p) = 0
    \/ \E i \in 1..(Len(s) - Len(p) + 1) : SubSeq(s, i, i + Len(p) - 1) = p

(***************************************************************************)
(* String.prototype.toLowerCase and trim                                   *)
(***************************************************************************)
UpperCaseLetters == "ABCDEFGHIJKLMNOPQRSTUVWXYZ"
LowerCaseLetters == "abcdefghijklmnopqrstuvwxyz"

CharAt(s, i) == SubSeq(s, i, i)

UpperCaseSet == { CharAt(UpperCaseLetters, k) : k \in 1..Len(UpperCaseLetters) }

LowerCaseOf ==
    [c \in UpperCaseSet |->
        CharAt(LowerCaseLetters,
               CHOOSE k \in 1..Len(UpperCaseLetters) : CharAt(UpperCaseLetters, k) = c)]

LowerChar(c) == IF c \in UpperCaseSet THEN LowerCaseOf[c] ELSE c

RECURSIVE ToLowerFrom(_, _)
ToLowerFrom(s, i) ==
    IF i > Len(s) THEN "" ELSE LowerChar(CharAt(s, i)) \o ToLowerFrom(s, i + 1)

ToLower(s) == ToLowerFrom(s, 1)

IsWhitespace(c) == c \in {" ", "\t", "\n", "\r"}

RECURSIVE TrimStart(_)
TrimStart(s) ==
    IF Len(s) > 0 /\ IsWhitespace(CharAt(s, 1))
    THEN TrimStart(SubSeq(s, 2, Len(s))) ELSE s

RECURSIVE TrimEnd(_)
TrimEnd(s) ==
    IF Len(s) > 0 /\ IsWhitespace(CharAt(s, Len(s)))
    THEN TrimEnd(SubSeq(s, 1, Len(s) - 1)) ELSE s

Trim(s) == TrimEnd(TrimStart(s))

\* a || b on strings
OrElse(a, b) == IF a # "" THEN a ELSE b

(***************************************************************************)
(* The pattern catalog, in Object.entries order                            *)
(***************************************************************************)
Catalog ==
    << [category |-> "personal", subcategory |-> "name",
        patterns |-> << "name", "full name", "full_name" >>],
       [category |-> "personal", subcategory |-> "firstName",
        patterns |-> << "first name", "firstname", "first_name", "fname", "given name", "given_name" >>],
       [category |-> "personal", subcategory |-> "lastName",
        patterns |-> << "last name", "lastname", "last_name", "lname", "family name", "surname" >>],
       [category |-> "personal", subcategory |-> "middleName",
        patterns |-> << "middle name", "middlename", "middle_name", "mname", "middle initial" >>],
       [category |-> "personal", subcategory |-> "email",
        patterns |-> << "email", "e-mail", "email address", "e-mail address" >>],
       [category |-> "personal", subcategory |-> "phone",
        patterns |-> << "phone", "telephone", "mobile", "cell", "phone number" >>],
       [category |-> "personal", subcategory |-> "address",
        patterns |-> << "address", "street", "street address", "address line", "mailing address" >>],
       [category |-> "personal", subcategory |-> "city",
        patterns |-> << "city", "town", "municipality" >>],
       [category |-> "personal", subcategory |-> "state",
        patterns |-> << "state", "province", "region" >>],
       [category |-> "personal", subcategory |-> "zipCode",
        patterns |-> << "zip", "zipcode", "zip code", "postal", "postal code" >>],
       [category |-> "personal", subcategory |-> "country",
        patterns |-> << "country", "nation" >>],
       [category |-> "education", subcategory |-> "school",
        patterns |-> << "school", "university", "college", "institution", "academy", "educational institution" >>],
       [category |-> "education", subcategory |-> "degree",
        patterns |-> << "degree", "degree type", "diploma", "certification", "qualification" >>],
       [category |-> "education", subcategory |-> "fieldOfStudy",
        patterns |-> << "field of study", "major", "specialization", "concentration", "discipline" >>],
       [category |-> "education", subcategory |-> "graduationDate",
        patterns |-> << "graduation date", "graduation", "graduated", "completion date", "completion" >>],
       [category |-> "education", subcategory |-> "gpa",
        patterns |-> << "gpa", "grade point average", "grade average", "academic average" >>],
       [category |-> "experience", subcategory |-> "company",
        patterns |-> << "company", "employer", "organization", "firm", "business" >>],
       [category |-> "experience", subcategory |-> "title",
        patterns |-> << "job title", "title", "position", "role", "designation" >>],
       [category |-> "experience", subcategory |-> "startDate",
        patterns |-> << "start date", "from date", "employment start", "date from" >>],
       [category |-> "experience", subcategory |-> "endDate",
        patterns |-> << "end date", "to date", "employment end", "date to" >>],
       [category |-> "experience", subcategory |-> "description",
        patterns |-> << "description", "job description", "responsibilities", "duties" >>],
       [category |-> "experience", subcategory |-> "currentJob",
        patterns |-> << "current job", "current position", "current employer", "present employer" >>],
       [category |-> "skills", subcategory |-> "skills",
        patterns |-> << "skills", "abilities", "competencies", "expertise", "proficiencies" >>],
       [category |-> "skills", subcategory |-> "languages",
        patterns |-> << "languages", "spoken languages", "programming languages" >>],
       [category |-> "skills", subcategory |-> "certifications",
        patterns |-> << "certifications", "certificates", "credentials", "licenses" >>],
       [category |-> "other", subcategory |-> "salary",
        patterns |-> << "salary", "compensation", "pay", "wage", "remuneration", "expected salary" >>],
       [category |-> "other", subcategory |-> "startDate",
        patterns |-> << "start date", "availability", "available from", "when can you start" >>],
       [category |-> "other", subcategory |-> "relocation",
        patterns |-> << "relocation", "willing to relocate", "can relocate", "relocate" >>],
       [category |-> "other", subcategory |-> "citizenship",
        patterns |-> << "citizenship", "citizen", "work authorization", "authorized to work", "visa" >>],
       [category |-> "other", subcategory |-> "linkedin",
        patterns |-> << "linkedin", "linkedin url", "linkedin profile" >>],
       [category |-> "other", subcategory |-> "website",
        patterns |-> << "website", "personal website", "portfolio", "blog" >>],
       [category |-> "other", subcategory |-> "github",
        patterns |-> << "github", "github url", "github profile", "gitlab" >>],
       [category |-> "other", subcategory |-> "twitter",
        patterns |-> << "twitter", "twitter url", "twitter handle", "x.com" >>],
       [category |-> "other", subcategory |-> "reference",
        patterns |-> << "reference", "references", "referrer", "referral" >>],
       [category |-> "other", subcategory |-> "coverLetter",
        patterns |-> << "cover letter", "cover_letter", "coverletter", "letter of interest" >>],
       [category |-> "other", subcategory |-> "resume",
        patterns |-> << "resume", "cv", "curriculum vitae", "upload resume", "upload cv" >>] >>

(***************************************************************************)
(* FormDetector.calculateMatchScore                                        *)
(***************************************************************************)
RECURSIVE DataAttributeScore(_, _, _)
DataAttributeScore(dataAttributes, pattern, i) ==
    IF i > Len(dataAttributes) THEN 0
    ELSE (IF \/ Contains(dataAttributes[i].key, pattern)
             \/ Contains(dataAttributes[i].value, pattern)
          THEN 1 ELSE 0)
         + DataAttributeScore(dataAttributes, pattern, i + 1)

\* variant: an id match weighted 2 instead of 3
PatternScore_IdWeightTwo(m, pattern) ==
      (IF Contains(m.id, pattern) THEN 2 ELSE 0)
    + (IF Contains(m.name, pattern) THEN 3 ELSE 0)
    + (IF Contains(m.labelText, pattern)
       THEN 5 + (IF m.labelForField THEN 2 ELSE 0) ELSE 0)
    + (IF Contains(m.placeholder, pattern) THEN 2 ELSE 0)
    + (IF Contains(m.ariaLabel, pattern) THEN 3 ELSE 0)
    + (IF Contains(m.title, pattern) THEN 1 ELSE 0)
    + DataAttributeScore(m.dataAttributes, pattern, 1)

PatternScore(m, pattern) ==
      (IF Contains(m.id, pattern) THEN 3 ELSE 0)
    + (IF Contains(m.name, pattern) THEN 3 ELSE 0)
    + (IF Contains(m.labelText, pattern)
       THEN 5 + (IF m.labelForField THEN 2 ELSE 0) ELSE 0)
    + (IF Contains(m.placeholder, pattern) THEN 2 ELSE 0)
    + (IF Contains(m.ariaLabel, pattern) THEN 3 ELSE 0)
    + (IF Contains(m.title, pattern) THEN 1 ELSE 0)
    + DataAttributeScore(m.dataAttributes, pattern, 1)

\* variant: the loop over the phrases left at the first phrase that scores
RECURSIVE ScoreFrom_StopsAtFirstMatch(_, _, _)
ScoreFrom_StopsAtFirstMatch(m, patterns, i) ==
    IF i > Len(patterns) THEN 0
    ELSE IF PatternScore(m, patterns[i]) > 0 THEN PatternScore(m, patterns[i])
    ELSE ScoreFrom_StopsAtFirstMatch(m, patterns, i + 1)

RECURSIVE ScoreFrom(_, _, _)
ScoreFrom(m, patterns, i) ==
    IF i > Len(patterns) THEN 0
    ELSE PatternScore(m, patterns[i]) + ScoreFrom(m, patterns, i + 1)

calculateMatchScore(m, patterns) == ScoreFrom(m, patterns, 1)

(***************************************************************************)
(* FormDetector.categorizeField                                            *)
(***************************************************************************)
UnknownMatch ==
    [category |-> "unknown", subcategory |-> "unknown", highestMatchScore |-> 0]

\* the loop over the catalog: a strictly higher score replaces the best so far
RECURSIVE BestMatch(_, _, _)
BestMatch(m, i, best) ==
    IF i > Len(Catalog) THEN best
    ELSE LET matchScore == calculateMatchScore(m, Catalog[i].patterns)
         IN  BestMatch(m, i + 1,
                 IF matchScore > best.highestMatchScore
                 THEN [category |-> Catalog[i].category,
                       subcategory |-> Catalog[i].subcategory,
                       highestMatchScore |-> matchScore]
                 ELSE best)

\* variant: the heuristics also consulted at a score of exactly 3
FallbackConsulted_Inclusive(best) ==
    best.category = "unknown" \/ best.highestMatchScore <= 3

\* the guard of the field-type heuristics
FallbackConsulted(best) ==
    best.category = "unknown" \/ best.highestMatchScore < 3

\* the else-if chain of the field-type heuristics; kept when none applies
TypeHeuristic(m, kept) ==
    IF m.type = "email" THEN [category |-> "personal", subcategory |-> "email"]
    ELSE IF m.type = "tel" THEN [category |-> "personal", subcategory |-> "phone"]
    ELSE IF m.autocomplete = "address-line1"
         THEN [category |-> "personal", subcategory |-> "address"]
    ELSE IF m.autocomplete = "address-level2"
         THEN [category |-> "personal", subcategory |-> "city"]
    ELSE IF m.autocomplete = "address-level1"
         THEN [category |-> "personal", subcategory |-> "state"]
    ELSE IF m.autocomplete = "postal-code"
         THEN [category |-> "personal", subcategory |-> "zipCode"]
    ELSE IF m.autocomplete = "country"
         THEN [category |-> "personal", subcategory |-> "country"]
    ELSE kept

\* variant: an inconclusive match that no heuristic replaces is dropped
ResultFrom_DropsInconclusive(m, best) ==
    IF FallbackConsulted(best)
    THEN TypeHeuristic(m, [category |-> "unknown", subcategory |-> "unknown"])
    ELSE [category |-> best.category, subcategory |-> best.subcategory]

\* what categorizeField returns once the loop has left best
ResultFrom(m, best) ==
    IF FallbackConsulted(best)
    THEN TypeHeuristic(m, [category |-> best.category,
                           subcategory |-> best.subcategory])
    ELSE [category |-> best.category, subcategory |-> best.subcategory]

categorizeField(m) == ResultFrom(m, BestMatch(m, 1, UnknownMatch))

(***************************************************************************)
(* FormDetector.calculateConfidence (hundredths)                           *)
(***************************************************************************)
Min(a, b) == IF a < b THEN a ELSE b

SeqIncludes(seq, x) == \E i \in 1..Len(seq) : seq[i] = x

TypeBoost(m, subcategory) ==
    IF \/ (subcategory = "email" /\ m.type = "email")
       \/ (subcategory = "phone" /\ m.type = "tel")
    THEN 30 ELSE 0

AutocompleteBoost(m, subcategory) ==
    IF /\ m.autocomplete # ""
       /\ \/ (subcategory = "firstName" /\ m.autocomplete = "given-name")
          \/ (subcategory = "lastName" /\ m.autocomplete = "family-name")
          \/ (subcategory = "email" /\ m.autocomplete = "email")
          \/ (subcategory = "phone" /\ m.autocomplete = "tel")
          \/ (subcategory = "address" /\ Contains(m.autocomplete, "address-line"))
          \/ (subcategory = "city" /\ m.autocomplete = "address-level2")
          \/ (subcategory = "state" /\ m.autocomplete = "address-level1")
          \/ (subcategory = "zipCode" /\ m.autocomplete = "postal-code")
          \/ (subcategory = "country" /\ m.autocomplete = "country")
    THEN 30 ELSE 0

\* variant: the name attribute not looked at
IdNameBoost_IdOnly(m, subcategory) ==
    IF Contains(m.id, subcategory) THEN 20 ELSE 0

\* variant: the subcategory key compared without regard to case
IdNameBoost_IgnoresCase(m, subcategory) ==
    IF Contains(m.id, ToLower(subcategory)) \/ Contains(m.name, ToLower(subcategory))
    THEN 20 ELSE 0

IdNameBoost(m, subcategory) ==
    IF Contains(m.id, subcategory) \/ Contains(m.name, subcategory)
    THEN 20 ELSE 0

RequiredBoost(m) ==
    IF m.required /\ m.labelText # "" THEN 10 ELSE 0

OptionsBoost(m, subcategory) ==
    IF /\ Len(m.options) > 0
       /\ \/ (subcategory = "country" /\ SeqIncludes(m.options, "united states"))
          \/ (subcategory = "state" /\ SeqIncludes(m.options, "california"))
          \/ /\ subcategory = "degree"
             /\ \/ SeqIncludes(m.options, "bachelor")
                \/ SeqIncludes(m.options, "master")
                \/ SeqIncludes(m.options, "phd")
    THEN 20 ELSE 0

\* Math.min(confidence, 1.0)
CapConfidence(confidence) == Min(confidence, 100)

calculateConfidence(m, category, subcategory) ==
    IF category = "unknown" THEN 0
    ELSE CapConfidence(50
            + (IF m.labelForField THEN 30 ELSE 0)
            + TypeBoost(m, subcategory)
            + AutocompleteBoost(m, subcategory)
            + IdNameBoost(m, subcategory)
            + RequiredBoost(m)
            + OptionsBoost(m, subcategory))

\* the result of analyzeField for metadata m categorized as c
Scored(m, c) ==
    [category |-> c.category, subcategory |-> c.subcategory,
     confidence |-> calculateConfidence(m, c.category, c.subcategory)]

\* FormDetector.analyzeField, from the metadata on
Classify(m) == Scored(m, categorizeField(m))

(***************************************************************************)
(* Classifier inputs                                                       *)
(***************************************************************************)
MaxDataAttributes == 1

EmptyMetadata ==
    [id |-> "", name |-> "", type |-> "", placeholder |-> "",
     autocomplete |-> "", ariaLabel |-> "", title |-> "",
     dataAttributes |-> << >>, labelText |-> "", labelForField |-> FALSE,
     required |-> FALSE, options |-> << >>]

AllPatterns ==
    UNION { { Catalog[i].patterns[j] : j \in 1..Len(Catalog[i].patterns) } :
            i \in 1..Len(Catalog) }

\* one label, bound by for/id or not, nothing else
LabelInputs ==
    { [EmptyMetadata EXCEPT !.labelText = l, !.labelForField = b, !.required = r] :
        l \in AllPatterns \cup {""}, b \in BOOLEAN, r \in BOOLEAN }

DataAttributeChoices ==
    { [key |-> "data-field", value |-> "gpa"], [key |-> "data-cv", value |-> "x"] }

DataAttributeLists ==
    UNION { [1..n -> DataAttributeChoices] : n \in 0..MaxDataAttributes }

\* no label: identifiers, control type, autocomplete token and weak channels
StructuralInputs ==
    { [EmptyMetadata EXCEPT !.id = i, !.type = t, !.autocomplete = a,
                            !.placeholder = ph, !.title = ti,
                            !.dataAttributes = d] :
        i \in {"", "email", "applicant_phone"},
        t \in {"", "text", "email", "tel"},
        a \in {"", "address-line1", "address-level2", "address-level1",
               "postal-code", "country", "email"},
        ph \in {"", "pay", "your zip"},
        ti \in {"", "cv"},
        d \in DataAttributeLists }

\* metadata on which several confidence boosts apply at once
BoostInputs ==
    { [EmptyMetadata EXCEPT !.labelText = x.label, !.labelForField = b,
                            !.required = r, !.id = x.id, !.name = x.name,
                            !.type = x.type, !.autocomplete = x.autocomplete,
                            !.ariaLabel = x.aria, !.options = x.options] :
        b \in BOOLEAN, r \in BOOLEAN,
        x \in { [label |-> "email", id |-> "email", name |-> "email",
                 type |-> "email", autocomplete |-> "email", aria |-> "email",
                 options |-> << >>],
                [label |-> "phone", id |-> "phone", name |-> "",
                 type |-> "tel", autocomplete |-> "tel", aria |-> "",
                 options |-> << >>],
                [label |-> "country", id |-> "country", name |-> "",
                 type |-> "select-one", autocomplete |-> "country", aria |-> "",
                 options |-> << "canada", "united states" >>],
                [label |-> "state", id |-> "", name |-> "state",
                 type |-> "select-one", autocomplete |-> "address-level1",
                 aria |-> "", options |-> << "california" >>],
                [label |-> "degree", id |-> "", name |-> "",
                 type |-> "select-one", autocomplete |-> "", aria |-> "",
                 options |-> << "bachelor", "master" >>],
                [label |-> "first name", id |-> "first_name", name |-> "",
                 type |-> "text", autocomplete |-> "given-name", aria |-> "",
                 options |-> << >>] } }

MetadataInputs == LabelInputs \cup StructuralInputs \cup BoostInputs

NoResult == [category |-> "none", subcategory |-> "none", confidence |-> 0]
NoPage == [main |-> << >>, iframes |-> << >>]
NotRun == [status |-> "not run"]
NoInput == [type |-> "none"]
NoContentScript == [phase |-> "none"]
NoPopup == [phase |-> "none"]

(***************************************************************************)
(* Spec: FormDetector.analyzeField applied to one FieldMetadata            *)
(***************************************************************************)
Init ==
    /\ metadata \in MetadataInputs
    /\ classification = NoResult
    /\ page = NoPage
    /\ entryPoint = "none"
    /\ detected = << >>
    /\ input = NoInput
    /\ outcome = NotRun
    /\ contentScript = NoContentScript
    /\ popup = NoPopup

AnalyzeField ==
    /\ classification = NoResult
    /\ classification' = Classify(metadata)
    /\ UNCHANGED << metadata, page, entryPoint, detected, input, outcome, contentScript, popup >>

Next == AnalyzeField

Spec == Init /\ [][Next]_vars

(***************************************************************************)
(* The DOM as the detectors read it.  A control carries its own attributes *)
(* and properties, the label element document.querySelector finds for its  *)
(* id (labelFor), its parentElement chain below BODY, innermost first      *)
(* (ancestors), and its previous siblings and its parent's, nearest first. *)
(***************************************************************************)
\* variant: the password test left out of the second group
isRelevantField_PasswordsKept(field) ==
    IF \/ field.type = "hidden"
       \/ field.disabled
       \/ field.readOnly
       \/ field.type = "submit"
       \/ field.type = "button"
       \/ field.type = "file"
    THEN FALSE
    ELSE IF \/ field.autocomplete = "new-password"
            \/ Contains(field.name, "captcha")
            \/ Contains(field.id, "captcha")
            \/ Contains(field.name, "security")
            \/ Contains(field.id, "security")
    THEN FALSE
    ELSE TRUE

\* FormDetector.isRelevantField
isRelevantField(field) ==
    IF \/ field.type = "hidden"
       \/ field.disabled
       \/ field.readOnly
       \/ field.type = "submit"
       \/ field.type = "button"
       \/ field.type = "file"
    THEN FALSE
    ELSE IF \/ field.type = "password"
            \/ field.autocomplete = "new-password"
            \/ Contains(field.name, "captcha")
            \/ Contains(field.id, "captcha")
            \/ Contains(field.name, "security")
            \/ Contains(field.id, "security")
    THEN FALSE
    ELSE TRUE

\* the parent-label walk of getFieldMetadata: the first LABEL ancestor
RECURSIVE ParentLabelText(_, _)
ParentLabelText(ancestors, i) ==
    IF i > Len(ancestors) THEN ""
    ELSE IF ancestors[i].nodeName = "LABEL"
         THEN ToLower(Trim(ancestors[i].textContent))
         ELSE ParentLabelText(ancestors, i + 1)

\* one previous-sibling walk of findNearbyLabelText: the first non-empty
\* trimmed text of a text node or of a visible element
RECURSIVE NearbyTextIn(_, _)
NearbyTextIn(siblings, i) ==
    IF i > Len(siblings) THEN ""
    ELSE OrElse(IF \/ siblings[i].nodeType = "text"
                      \/ (siblings[i].nodeType = "element" /\ siblings[i].visible)
                   THEN Trim(siblings[i].textContent) ELSE "",
                NearbyTextIn(siblings, i + 1))

\* FormDetector.findNearbyLabelText
findNearbyLabelText(field) ==
    ToLower(OrElse(NearbyTextIn(field.previousSiblings, 1),
                   IF field.hasParent
                   THEN NearbyTextIn(field.parentPreviousSiblings, 1) ELSE ""))

\* the data-* attributes of a control, in attribute order
DataAttributesOf(field) ==
    (IF field.automationId # ""
     THEN << [key |-> "data-automation-id", value |-> ToLower(field.automationId)] >>
     ELSE << >>)
    \o [i \in 1..Len(field.dataAttrs) |->
           [key |-> field.dataAttrs[i].key, value |-> ToLower(field.dataAttrs[i].value)]]

\* document.querySelector('label[for=id]') found a label element
HasLabelElement(field) == field.id # "" /\ field.labelFor # << >>

\* the label resolution of getFieldMetadata: the explicit label, else the
\* first LABEL ancestor, else nearby text
LabelTextOf(field) ==
    OrElse(OrElse(IF HasLabelElement(field)
                  THEN ToLower(Trim(field.labelFor[1])) ELSE "",
                  ParentLabelText(field.ancestors, 1)),
           findNearbyLabelText(field))

\* FormDetector.getFieldMetadata
getFieldMetadata(field) ==
        [id |-> ToLower(field.id),
         name |-> ToLower(field.name),
         type |-> ToLower(field.type),
         placeholder |-> ToLower(field.placeholder),
         autocomplete |-> ToLower(field.autocomplete),
         ariaLabel |-> ToLower(field.ariaLabel),
         title |-> ToLower(field.title),
         dataAttributes |-> DataAttributesOf(field),
         labelText |-> LabelTextOf(field),
         labelForField |-> HasLabelElement(field),
         required |-> field.required,
         options |-> [i \in 1..Len(field.options) |-> ToLower(field.options[i])]]

\* FormDetector.analyzeField; element is the control's place in the page
DetectedField(element, m, c) ==
    [element |-> element, metadata |-> m, category |-> c.category,
     subcategory |-> c.subcategory, confidence |-> c.confidence]

AnalyzeMetadata(element, m) == DetectedField(element, m, Classify(m))

analyzeField(element, field) == AnalyzeMetadata(element, getFieldMetadata(field))

\* the controls of a document with their places, in document order
ElementsOf(doc, controls) ==
    [i \in 1..Len(controls) |-> [element |-> [doc |-> doc, index |-> i],
                                 field |-> controls[i]]]

RECURSIVE FilterRelevant(_, _)
FilterRelevant(elements, i) ==
    IF i > Len(elements) THEN << >>
    ELSE (IF isRelevantField(elements[i].field) THEN << elements[i] >> ELSE << >>)
         \o FilterRelevant(elements, i + 1)

\* FormDetector.detectFields: always over the top document
AnalyzeAll(relevant) ==
    [i \in 1..Len(relevant) |->
        analyzeField(relevant[i].element, relevant[i].field)]

FormDetector_detectFields(pg) ==
    AnalyzeAll(FilterRelevant(ElementsOf(0, pg.main), 1))

(***************************************************************************)
(* GreenhouseAdapter                                                       *)
(***************************************************************************)
Pair(category, subcategory) == [category |-> category, subcategory |-> subcategory]

\* Element.className from the class list
RECURSIVE JoinFrom(_, _, _)
JoinFrom(tokens, sep, i) ==
    IF i > Len(tokens) THEN ""
    ELSE IF i = Len(tokens) THEN tokens[i]
    ELSE tokens[i] \o sep \o JoinFrom(tokens, sep, i + 1)

ClassName(node) == JoinFrom(node.classList, " ", 1)

\* the parentElement walk shared by both findFieldWrapper methods: the
\* innermost ancestor carrying one of the classes, << >> for null
RECURSIVE FirstWithClass(_, _, _)
FirstWithClass(ancestors, classes, i) ==
    IF i > Len(ancestors) THEN << >>
    ELSE IF \E c \in classes : SeqIncludes(ancestors[i].classList, c)
         THEN << ancestors[i] >>
         ELSE FirstWithClass(ancestors, classes, i + 1)

\* GreenhouseAdapter.findFieldWrapper
Greenhouse_findFieldWrapper(field) ==
    FirstWithClass(field.ancestors, {"field", "form-field", "question"}, 1)

\* GreenhouseAdapter.categorizeGreenhouseField
categorizeGreenhouseField(m) ==
    LET id == m.id
        name == m.name
        labelText == m.labelText
        ghId == m.greenhouseFieldId
    IN  IF id = "first_name" \/ name = "first_name" \/ ghId = "first_name_field"
        THEN Pair("personal", "firstName")
        ELSE IF id = "last_name" \/ name = "last_name" \/ ghId = "last_name_field"
        THEN Pair("personal", "lastName")
        ELSE IF id = "email" \/ name = "email" \/ ghId = "email_field"
        THEN Pair("personal", "email")
        ELSE IF id = "phone" \/ name = "phone" \/ ghId = "phone_field"
        THEN Pair("personal", "phone")
        ELSE IF \/ id = "linkedin_url" \/ name = "urls[LinkedIn]"
                \/ Contains(id, "linkedin") \/ Contains(ghId, "linkedin")
        THEN Pair("other", "linkedin")
        ELSE IF \/ id = "website" \/ name = "website"
                \/ Contains(id, "website") \/ Contains(ghId, "website")
        THEN Pair("other", "website")
        ELSE IF \/ Contains(id, "address") \/ Contains(name, "address")
                \/ Contains(ghId, "address")
        THEN IF Contains(id, "city") \/ Contains(name, "city")
             THEN Pair("personal", "city")
             ELSE IF Contains(id, "state") \/ Contains(name, "state")
             THEN Pair("personal", "state")
             ELSE IF \/ Contains(id, "zip") \/ Contains(name, "zip")
                     \/ Contains(id, "postal") \/ Contains(name, "postal")
             THEN Pair("personal", "zipCode")
             ELSE Pair("personal", "address")
        ELSE IF \/ Contains(ghId, "education") \/ Contains(ghId, "degree")
                \/ Contains(ghId, "school")
        THEN IF \/ Contains(ghId, "school") \/ Contains(labelText, "school")
                \/ Contains(labelText, "university")
             THEN Pair("education", "school")
             ELSE IF Contains(ghId, "degree") \/ Contains(labelText, "degree")
             THEN Pair("education", "degree")
             ELSE Pair("education", "school")
        ELSE IF \/ Contains(ghId, "experience") \/ Contains(ghId, "employment")
                \/ Contains(ghId, "job")
        THEN IF Contains(ghId, "company") \/ Contains(labelText, "company")
             THEN Pair("experience", "company")
             ELSE IF Contains(ghId, "title") \/ Contains(labelText, "title")
             THEN Pair("experience", "title")
             ELSE Pair("experience", "company")
        ELSE IF \/ Contains(id, "resume") \/ Contains(name, "resume")
                \/ Contains(id, "cv") \/ Contains(name, "cv")
                \/ Contains(labelText, "resume") \/ Contains(labelText, "cv")
        THEN Pair("other", "resume")
        ELSE IF \/ Contains(id, "cover_letter") \/ Contains(name, "cover_letter")
                \/ Contains(labelText, "cover letter")
        THEN Pair("other", "coverLetter")
        ELSE categorizeField(m)

\* the flat bonus for Greenhouse's form structure
GreenhouseStructureBonus(m, confidence) ==
    IF m.greenhouseFieldId # "" \/ m.greenhouseFieldType # ""
    THEN Min(confidence + 15, 100) ELSE confidence

\* variant: the standard-field bonus added without Math.min
GreenhouseStandardBonus_Unclamped(category, subcategory, confidence) ==
    IF \/ (category = "personal"
            /\ subcategory \in {"firstName", "lastName", "email", "phone"})
       \/ (category = "other" /\ subcategory \in {"resume", "coverLetter"})
    THEN confidence + 20 ELSE confidence

\* the bonus for standard fields
GreenhouseStandardBonus(category, subcategory, confidence) ==
    IF \/ (category = "personal"
            /\ subcategory \in {"firstName", "lastName", "email", "phone"})
       \/ (category = "other" /\ subcategory \in {"resume", "coverLetter"})
    THEN Min(confidence + 20, 100) ELSE confidence

\* GreenhouseAdapter.calculateGreenhouseConfidence
calculateGreenhouseConfidence(m, category, subcategory) ==
    GreenhouseStandardBonus(category, subcategory,
        GreenhouseStructureBonus(m, calculateConfidence(m, category, subcategory)))

\* the metadata enhanceGreenhouseField builds from wrapper w
GreenhouseMetadata(m, w) ==
    m @@ [greenhouseFieldId |-> w.id,
          greenhouseFieldType |-> ClassName(w),
          isRequired |-> (\/ SeqIncludes(w.classList, "required")
                          \/ w.requiredMarker
                          \/ m.required)]

\* variant: the confidence of the generic categorization kept
GreenhouseScored_KeepsBaselineConfidence(element, m, c) ==
    [element |-> element, metadata |-> m,
     category |-> c.category, subcategory |-> c.subcategory,
     confidence |-> Classify(m).confidence]

GreenhouseScored(element, m, c) ==
    [element |-> element, metadata |-> m,
     category |-> c.category, subcategory |-> c.subcategory,
     confidence |-> calculateGreenhouseConfidence(m, c.category, c.subcategory)]

GreenhouseRecategorized(element, m) ==
    GreenhouseScored(element, m, categorizeGreenhouseField(m))

EnhancedWith(f, fieldWrapper) ==
    IF fieldWrapper = << >> THEN f
    ELSE GreenhouseRecategorized(f.element,
                                 GreenhouseMetadata(f.metadata, fieldWrapper[1]))

\* GreenhouseAdapter.enhanceGreenhouseField
enhanceGreenhouseField(f, field) ==
    EnhancedWith(f, Greenhouse_findFieldWrapper(field))

\* the control behind a detected field of the top document
FieldAt(pg, element) ==
    IF element.doc = 0 THEN pg.main[element.index]
    ELSE pg.iframes[element.doc].controls[element.index]

\* GreenhouseAdapter.detectFields
GreenhouseEnhanceAll(pg, fields) ==
    [i \in 1..Len(fields) |->
        enhanceGreenhouseField(fields[i], FieldAt(pg, fields[i].element))]

Greenhouse_detectFields(pg) ==
    GreenhouseEnhanceAll(pg, FormDetector_detectFields(pg))

(***************************************************************************)
(* LeverAdapter                                                            *)
(***************************************************************************)
\* LeverAdapter.findFieldWrapper
Lever_findFieldWrapper(field) ==
    FirstWithClass(field.ancestors,
                   {"application-field", "input-field", "field-group"}, 1)

\* the wrapper classes that name a field type
RECURSIVE TypeClasses(_, _)
TypeClasses(classes, i) ==
    IF i > Len(classes) THEN << >>
    ELSE (IF \/ Contains(classes[i], "field-")
             \/ Contains(classes[i], "application-")
             \/ Contains(classes[i], "question-")
          THEN << classes[i] >> ELSE << >>)
         \o TypeClasses(classes, i + 1)

\* leverFieldType: the joined type classes; "" stands for null (both falsy)
LeverFieldType(wrapper) == JoinFrom(TypeClasses(wrapper.classList, 1), " ", 1)

\* LeverAdapter.categorizeLeverField
categorizeLeverField(m) ==
    LET id == m.id
        name == m.name
        labelText == m.labelText
    IN  IF \/ name = "resume" \/ Contains(id, "resume")
           \/ Contains(labelText, "resume") \/ Contains(labelText, "cv")
        THEN Pair("other", "resume")
        ELSE IF \/ name = "coverLetter" \/ Contains(id, "cover")
                \/ Contains(labelText, "cover letter")
        THEN Pair("other", "coverLetter")
        ELSE IF name = "name" \/ id = "name" \/ Contains(labelText, "full name")
        THEN Pair("personal", "name")
        ELSE IF name = "email" \/ id = "email" \/ Contains(labelText, "email")
        THEN Pair("personal", "email")
        ELSE IF name = "phone" \/ id = "phone" \/ Contains(labelText, "phone")
        THEN Pair("personal", "phone")
        ELSE IF \/ name = "org" \/ Contains(labelText, "company")
                \/ Contains(labelText, "current company")
        THEN Pair("experience", "company")
        ELSE IF \/ name = "urls[LinkedIn]" \/ Contains(id, "linkedin")
                \/ Contains(labelText, "linkedin")
        THEN Pair("other", "linkedin")
        ELSE IF \/ name = "urls[GitHub]" \/ Contains(id, "github")
                \/ Contains(labelText, "github")
        THEN Pair("other", "github")
        ELSE IF \/ name = "urls[Portfolio]" \/ Contains(id, "website")
                \/ Contains(id, "portfolio") \/ Contains(labelText, "website")
                \/ Contains(labelText, "portfolio")
        THEN Pair("other", "website")
        ELSE categorizeField(m)

\* the flat bonus for Lever's form structure
LeverStructureBonus(m, confidence) ==
    IF m.leverFieldType # "" THEN Min(confidence + 15, 100) ELSE confidence

\* the bonus for the full-name field
LeverNameBonus(category, subcategory, confidence) ==
    IF category = "personal" /\ subcategory = "name"
    THEN Min(confidence + 20, 100) ELSE confidence

\* LeverAdapter.calculateLeverConfidence
calculateLeverConfidence(m, category, subcategory) ==
    LeverNameBonus(category, subcategory,
        LeverStructureBonus(m, calculateConfidence(m, category, subcategory)))

\* the metadata enhanceFieldInfo builds from wrapper w
LeverMetadata(m, w) ==
    m @@ [leverFieldType |-> LeverFieldType(w),
          isRequired |-> (\/ SeqIncludes(w.classList, "required")
                          \/ w.requiredMarker
                          \/ m.required)]

LeverScored(element, m, c) ==
    [element |-> element, metadata |-> m,
     category |-> c.category, subcategory |-> c.subcategory,
     confidence |-> calculateLeverConfidence(m, c.category, c.subcategory)]

LeverRecategorized(element, m) == LeverScored(element, m, categorizeLeverField(m))

LeverEnhancedWith(f, fieldWrapper) ==
    IF fieldWrapper = << >> THEN f
    ELSE LeverRecategorized(f.element, LeverMetadata(f.metadata, fieldWrapper[1]))

\* LeverAdapter.enhanceFieldInfo
enhanceFieldInfo(f, field) == LeverEnhancedWith(f, Lever_findFieldWrapper(field))

\* LeverAdapter.detectFields
LeverEnhanceAll(pg, fields) ==
    [i \in 1..Len(fields) |->
        enhanceFieldInfo(fields[i], FieldAt(pg, fields[i].element))]

Lever_detectFields(pg) == LeverEnhanceAll(pg, FormDetector_detectFields(pg))

(***************************************************************************)
(* WorkdayAdapter                                                          *)
(***************************************************************************)
\* String.prototype.split('-') followed by join(' ')
RECURSIVE DashesToSpaces(_, _)
DashesToSpaces(s, i) ==
    IF i > Len(s) THEN ""
    ELSE (IF CharAt(s, i) = "-" THEN " " ELSE CharAt(s, i))
         \o DashesToSpaces(s, i + 1)

\* WorkdayAdapter.categorizeWorkdayField
categorizeWorkdayField(m) ==
    LET aid == m.workdayAutomationId
        Has(x) == Contains(aid, x)
    IN  IF aid # "" /\ Has("email") THEN Pair("personal", "email")
        ELSE IF aid # "" /\ Has("phone") THEN Pair("personal", "phone")
        ELSE IF aid # "" /\ Has("name")
        THEN IF Has("first") THEN Pair("personal", "firstName")
             ELSE IF Has("last") THEN Pair("personal", "lastName")
             ELSE Pair("personal", "name")
        ELSE IF aid # "" /\ Has("address")
        THEN IF Has("line1") \/ Has("street") THEN Pair("personal", "address")
             ELSE IF Has("city") THEN Pair("personal", "city")
             ELSE IF Has("state") \/ Has("province") THEN Pair("personal", "state")
             ELSE IF Has("zip") \/ Has("postal") THEN Pair("personal", "zipCode")
             ELSE IF Has("country") THEN Pair("personal", "country")
             ELSE Pair("personal", "address")
        ELSE IF aid # "" /\ (Has("education") \/ Has("school") \/ Has("degree"))
        THEN IF Has("school") \/ Has("institution") THEN Pair("education", "school")
             ELSE IF Has("degree") THEN Pair("education", "degree")
             ELSE IF Has("major") \/ Has("field")
             THEN Pair("education", "fieldOfStudy")
             ELSE IF Has("gpa") THEN Pair("education", "gpa")
             ELSE IF Has("graduated") \/ Has("completion")
             THEN Pair("education", "graduationDate")
             ELSE Pair("education", "school")
        ELSE IF aid # "" /\ (Has("experience") \/ Has("employment") \/ Has("job"))
        THEN IF Has("company") \/ Has("employer") THEN Pair("experience", "company")
             ELSE IF Has("title") \/ Has("position") THEN Pair("experience", "title")
             ELSE IF Has("start") THEN Pair("experience", "startDate")
             ELSE IF Has("end") THEN Pair("experience", "endDate")
             ELSE IF Has("description") \/ Has("duties")
             THEN Pair("experience", "description")
             ELSE Pair("experience", "company")
        ELSE IF aid # "" /\ Has("skill") THEN Pair("skills", "skills")
        ELSE IF aid # "" /\ (Has("veteran") \/ Has("military"))
        THEN Pair("other", "veteranStatus")
        ELSE categorizeField(m)

\* WorkdayAdapter.calculateWorkdayConfidence
\* the bonus for a field carrying Workday's attribute
WorkdayBonus(m, confidence) ==
    IF m.workdayAutomationId # "" THEN Min(confidence + 20, 100) ELSE confidence

calculateWorkdayConfidence(m, category, subcategory) ==
    WorkdayBonus(m, calculateConfidence(m, category, subcategory))

\* workdayFieldType: the id's parts joined by spaces; "" stands for null
WorkdayFieldType(automationId) ==
    IF automationId # "" /\ Contains(automationId, "-")
    THEN ToLower(DashesToSpaces(automationId, 1)) ELSE ""

\* enhancedLabelText.  field.workdayLabel is what the search among the
\* Workday label elements yields: << text >> of the first one close to the
\* field, << >> for none.
EnhancedLabelText(field, baseInfo, automationId) ==
    IF automationId # "" /\ field.workdayLabel # << >>
    THEN ToLower(Trim(field.workdayLabel[1])) ELSE baseInfo.labelText

EnhancedInfo(field, baseInfo, automationId) ==
    [baseInfo EXCEPT !.labelText =
        OrElse(EnhancedLabelText(field, baseInfo, automationId), baseInfo.labelText)]
    @@ [workdayAutomationId |-> automationId,
        workdayFieldType |-> WorkdayFieldType(automationId)]

WorkdayScored(element, m, c) ==
    [element |-> element, metadata |-> m,
     category |-> c.category, subcategory |-> c.subcategory,
     confidence |-> calculateWorkdayConfidence(m, c.category, c.subcategory)]

WorkdayCategorized(element, m) == WorkdayScored(element, m, categorizeWorkdayField(m))

\* WorkdayAdapter.getWorkdayFieldInfo; containerId is "" without a container
getWorkdayFieldInfo(element, field, containerId) ==
    WorkdayCategorized(element,
        EnhancedInfo(field, getFieldMetadata(field),
                     OrElse(field.automationId, containerId)))

\* the entries pushed for the data-automation-id containers around a control,
\* outermost (first in document order) first
RECURSIVE NestedEntries(_, _, _)
NestedEntries(element, field, i) ==
    IF i < 1 THEN << >>
    ELSE (IF field.ancestors[i].automationId # ""
          THEN << getWorkdayFieldInfo(element, field,
                                      field.ancestors[i].automationId) >>
          ELSE << >>)
         \o NestedEntries(element, field, i - 1)

\* the entries pushed for one control by the loop over [data-automation-id]
WorkdayEntries(element, field) ==
    NestedEntries(element, field, Len(field.ancestors))
    \o (IF field.automationId # ""
        THEN << getWorkdayFieldInfo(element, field, "") >> ELSE << >>)

RECURSIVE WorkdayFieldsFrom(_, _)
WorkdayFieldsFrom(elements, i) ==
    IF i > Len(elements) THEN << >>
    ELSE WorkdayEntries(elements[i].element, elements[i].field)
         \o WorkdayFieldsFrom(elements, i + 1)

\* WorkdayAdapter.removeDuplicateFields: the first entry of each element
RECURSIVE removeDuplicateFields(_, _, _)
removeDuplicateFields(fields, i, seenElements) ==
    IF i > Len(fields) THEN << >>
    ELSE IF fields[i].element \in seenElements
         THEN removeDuplicateFields(fields, i + 1, seenElements)
         ELSE << fields[i] >>
              \o removeDuplicateFields(fields, i + 1,
                                       seenElements \cup {fields[i].element})

\* WorkdayAdapter.detectFieldsInDocument for document doc holding controls;
\* the generic detector it calls reads the top document whatever doc is
detectFieldsInDocument(pg, doc, controls) ==
    removeDuplicateFields(WorkdayFieldsFrom(ElementsOf(doc, controls), 1)
                              \o FormDetector_detectFields(pg),
                          1, {})

\* the loop over getFormIframes(): an iframe the filter drops or whose
\* document cannot be reached contributes nothing
RECURSIVE IframeFieldsFrom(_, _)
IframeFieldsFrom(pg, k) ==
    IF k > Len(pg.iframes) THEN << >>
    ELSE (IF pg.iframes[k].formLike /\ pg.iframes[k].accessible
          THEN detectFieldsInDocument(pg, k, pg.iframes[k].controls)
          ELSE << >>)
         \o IframeFieldsFrom(pg, k + 1)

\* WorkdayAdapter.detectFields
Workday_detectFields(pg) ==
    detectFieldsInDocument(pg, 0, pg.main) \o IframeFieldsFrom(pg, 1)

(***************************************************************************)
(* Pages                                                                   *)
(***************************************************************************)
MaxControls == 2

BaseControl ==
    [tagName |-> "INPUT", type |-> "text", id |-> "", name |-> "",
     disabled |-> FALSE, readOnly |-> FALSE, autocomplete |-> "",
     required |-> FALSE, placeholder |-> "", ariaLabel |-> "", title |-> "",
     automationId |-> "", dataAttrs |-> << >>, options |-> << >>,
     labelFor |-> << >>, ancestors |-> << >>, hasParent |-> TRUE,
     previousSiblings |-> << >>, parentPreviousSiblings |-> << >>,
     workdayLabel |-> << >>]

Div(classList, id, automationId) ==
    [nodeName |-> "DIV", id |-> id, classList |-> classList,
     automationId |-> automationId, textContent |-> "", requiredMarker |-> FALSE]

\* a labelled, required e-mail input inside a Greenhouse field wrapper
EmailControl ==
    [BaseControl EXCEPT !.type = "email", !.id = "email", !.name = "email",
        !.autocomplete = "email", !.required = TRUE, !.labelFor = << " Email " >>,
        !.ancestors = << Div(<< "field", "required" >>, "email_field", "") >>]

\* a control nothing identifies, inside a Lever wrapper, inside a Greenhouse
\* wrapper, inside a Workday container
UnknownControl ==
    [BaseControl EXCEPT !.id = "q1",
        !.ancestors = << Div(<< "application-field" >>, "", ""),
                         Div(<< "field" >>, "", ""),
                         Div(<< >>, "", "formField-custom") >>]

\* Lever's full-name input, labelled by nearby text
FullNameControl ==
    [BaseControl EXCEPT !.name = "name",
        !.previousSiblings =
            << [nodeType |-> "element", textContent |-> "Full Name", visible |-> TRUE] >>,
        !.ancestors = << Div(<< "application-question", "input-field" >>, "", "") >>]

\* Greenhouse's first-name input: the generic catalog reads the id as a name
FirstNameControl ==
    [BaseControl EXCEPT !.id = "first_name",
        !.ancestors = << Div(<< "field" >>, "first_name_field", "") >>]

PasswordControl ==
    [BaseControl EXCEPT !.type = "password", !.id = "pwd",
        !.automationId = "password"]

HiddenControl ==
    [BaseControl EXCEPT !.type = "hidden", !.name = "token",
        !.ancestors = << Div(<< >>, "", "hiddenSection") >>]

DisabledControl ==
    [BaseControl EXCEPT !.type = "tel", !.id = "phone", !.disabled = TRUE,
        !.automationId = "phone-number"]

ReadOnlyControl ==
    [BaseControl EXCEPT !.name = "city", !.readOnly = TRUE,
        !.ancestors = << Div(<< "field" >>, "address_city", "addressSection-city") >>]

SubmitControl == [BaseControl EXCEPT !.type = "submit", !.automationId = "submit"]

ButtonControl == [BaseControl EXCEPT !.type = "button", !.automationId = "next"]

FileControl ==
    [BaseControl EXCEPT !.type = "file", !.id = "resume",
        !.automationId = "file-upload"]

CaptchaControl == [BaseControl EXCEPT !.id = "captcha_response"]

SecurityControl == [BaseControl EXCEPT !.name = "security_answer"]

\* isRelevantField compares the raw id: an upper-case CAPTCHA passes
UpperCaseCaptchaControl == [BaseControl EXCEPT !.id = "reCAPTCHA"]

ControlKinds ==
    { EmailControl, UnknownControl, FullNameControl, FirstNameControl,
      PasswordControl,
      HiddenControl, DisabledControl, ReadOnlyControl, SubmitControl,
      ButtonControl, FileControl, CaptchaControl, SecurityControl,
      UpperCaseCaptchaControl }

\* no iframe; a reachable form iframe; one whose document cannot be reached
IframeChoices ==
    { << >>,
      << [formLike |-> TRUE, accessible |-> TRUE,
          controls |-> << PasswordControl >>] >>,
      << [formLike |-> TRUE, accessible |-> FALSE, controls |-> << >>] >> }

Pages ==
    { [main |-> m, iframes |-> f] :
        m \in UNION { [1..n -> ControlKinds] : n \in 0..MaxControls },
        f \in IframeChoices }

(***************************************************************************)
(* SpecDetect: one detection pass over a page by one entry point           *)
(***************************************************************************)
InitDetect ==
    /\ metadata = EmptyMetadata
    /\ classification = NoResult
    /\ page \in Pages
    /\ entryPoint = "none"
    /\ detected = << >>
    /\ input = NoInput
    /\ outcome = NotRun
    /\ contentScript = NoContentScript
    /\ popup = NoPopup

Detect(name, fields) ==
    /\ entryPoint = "none"
    /\ entryPoint' = name
    /\ detected' = fields
    /\ UNCHANGED << metadata, classification, page, input, outcome, contentScript, popup >>

FormDetectorDetectFields == Detect("FormDetector", FormDetector_detectFields(page))

GreenhouseDetectFields == Detect("GreenhouseAdapter", Greenhouse_detectFields(page))

LeverDetectFields == Detect("LeverAdapter", Lever_detectFields(page))

WorkdayDetectFields == Detect("WorkdayAdapter", Workday_detectFields(page))

NextDetect ==
    \/ FormDetectorDetectFields
    \/ GreenhouseDetectFields
    \/ LeverDetectFields
    \/ WorkdayDetectFields

SpecDetect == InitDetect /\ [][NextDetect]_vars

(***************************************************************************)
(* Regular expressions of the resume parser.  A pattern is a sequence of   *)
(* items matched left to right with backtracking, in the order the         *)
(* JavaScript matcher tries the alternatives.  Texts are ASCII.            *)
(***************************************************************************)
CharsOf(s) == { CharAt(s, k) : k \in 1..Len(s) }

Digits == CharsOf("0123456789")
Letters == CharsOf(UpperCaseLetters) \cup CharsOf(LowerCaseLetters)
Alphanumerics == Letters \cup Digits
WhitespaceChars == { " ", "\t", "\n", "\r" }
LineTerminators == { "\n", "\r" }
\* \w
WordChars == Alphanumerics \cup { "_" }

\* a character class with a quantifier {min,max}; max = -1 is unbounded
CharClass(chars, negated, min, max, greedy) ==
    [kind |-> "set", chars |-> chars, negated |-> negated,
     min |-> min, max |-> max, greedy |-> greedy]

One(chars) == CharClass(chars, FALSE, 1, 1, TRUE)
Optional(chars) == CharClass(chars, FALSE, 0, 1, TRUE)
Exactly(chars, n) == CharClass(chars, FALSE, n, n, TRUE)
AtLeast(chars, n) == CharClass(chars, FALSE, n, -1, TRUE)
\* .*?
AnyLazy == CharClass(LineTerminators, TRUE, 0, -1, FALSE)

\* literal text; ci is the /i flag
Literal(text, ci) == [kind |-> "lit", text |-> text, ci |-> ci]

\* ( a | b | ... ), capturing as group cap (0: non-capturing), optional: (...)?
Group(alts, cap, optional) ==
    [kind |-> "group", alts |-> alts, cap |-> cap, optional |-> optional]

StartOfInput == [kind |-> "bol"]
EndOfInput == [kind |-> "eol"]
WordBoundary == [kind |-> "wordb"]

NoMatch == [ok |-> FALSE]
NoCaptures == << << 0, 0 >>, << 0, 0 >> >>

InClass(item, c) == (c \in item.chars) # item.negated

\* the longest run of characters of the class from position i, up to max
RECURSIVE MaxRun(_, _, _, _)
MaxRun(item, s, i, n) ==
    IF /\ i + n <= Len(s)
       /\ (item.max = -1 \/ n < item.max)
       /\ InClass(item, CharAt(s, i + n))
    THEN MaxRun(item, s, i, n + 1)
    ELSE n

LiteralAt(item, s, i) ==
    /\ i + Len(item.text) - 1 <= Len(s)
    /\ \A k \in 1..Len(item.text) :
          IF item.ci
          THEN LowerChar(CharAt(s, i + k - 1)) = LowerChar(CharAt(item.text, k))
          ELSE CharAt(s, i + k - 1) = CharAt(item.text, k)

IsWordAt(s, i) == i >= 1 /\ i <= Len(s) /\ CharAt(s, i) \in WordChars

FirstOf(attempt, otherwise) == IF attempt.ok THEN attempt ELSE otherwise

CloseOf(item, i) ==
    IF item.cap = 0 THEN << >>
    ELSE << [kind |-> "close", cap |-> item.cap, start |-> i] >>

RECURSIVE MatchHere(_, _, _, _)
RECURSIVE MatchGreedy(_, _, _, _, _, _)
RECURSIVE MatchLazy(_, _, _, _, _, _, _)
RECURSIVE MatchAlternatives(_, _, _, _, _, _)

\* fewer characters on backtracking
MatchGreedy(item, rest, s, i, caps, n) ==
    IF n < item.min THEN NoMatch
    ELSE FirstOf(MatchHere(rest, s, i + n, caps),
                 MatchGreedy(item, rest, s, i, caps, n - 1))

\* more characters on backtracking
MatchLazy(item, rest, s, i, caps, n, most) ==
    IF n > most THEN NoMatch
    ELSE FirstOf(MatchHere(rest, s, i + n, caps),
                 MatchLazy(item, rest, s, i, caps, n + 1, most))

MatchAlternatives(item, j, rest, s, i, caps) ==
    IF j > Len(item.alts)
    THEN IF item.optional THEN MatchHere(rest, s, i, caps) ELSE NoMatch
    ELSE FirstOf(MatchHere(item.alts[j] \o CloseOf(item, i) \o rest, s, i, caps),
                 MatchAlternatives(item, j + 1, rest, s, i, caps))

MatchItem(item, rest, s, i, caps) ==
    CASE item.kind = "set" ->
            IF item.greedy
            THEN MatchGreedy(item, rest, s, i, caps, MaxRun(item, s, i, 0))
            ELSE MatchLazy(item, rest, s, i, caps, item.min, MaxRun(item, s, i, 0))
      [] item.kind = "lit" ->
            IF LiteralAt(item, s, i)
            THEN MatchHere(rest, s, i + Len(item.text), caps) ELSE NoMatch
      [] item.kind = "group" -> MatchAlternatives(item, 1, rest, s, i, caps)
      [] item.kind = "close" ->
            MatchHere(rest, s, i, [caps EXCEPT ![item.cap] = << item.start, i >>])
      [] item.kind = "bol" ->
            IF i = 1 THEN MatchHere(rest, s, i, caps) ELSE NoMatch
      [] item.kind = "eol" ->
            IF i = Len(s) + 1 THEN MatchHere(rest, s, i, caps) ELSE NoMatch
      [] item.kind = "wordb" ->
            IF IsWordAt(s, i - 1) # IsWordAt(s, i)
            THEN MatchHere(rest, s, i, caps) ELSE NoMatch

MatchHere(items, s, i, caps) ==
    IF items = << >> THEN [ok |-> TRUE, end |-> i, caps |-> caps]
    ELSE MatchItem(Head(items), Tail(items), s, i, caps)

StartingAt(m, i) ==
    IF m.ok THEN [ok |-> TRUE, start |-> i, end |-> m.end, caps |-> m.caps]
    ELSE NoMatch

\* the positions at or after p where the pattern matches
MatchStarts(pattern, s, p) ==
    { i \in p..(Len(s) + 1) : MatchHere(pattern, s, i, NoCaptures).ok }

Least(positions) == CHOOSE i \in positions : \A j \in positions : i <= j

MatchAtLeast(pattern, s, starts) ==
    IF starts = {} THEN NoMatch
    ELSE StartingAt(MatchHere(pattern, s, Least(starts), NoCaptures), Least(starts))

\* the leftmost match at or after position p
SearchFrom(pattern, s, p) == MatchAtLeast(pattern, s, MatchStarts(pattern, s, p))

\* String.prototype.match without the g flag
Match(s, pattern) == SearchFrom(pattern, s, 1)

\* match[0] and match[g]
Matched(s, m) == SubSeq(s, m.start, m.end - 1)
Captured(s, m, g) == SubSeq(s, m.caps[g][1], m.caps[g][2] - 1)

RECURSIVE SplitFrom(_, _, _)
RECURSIVE PiecesAt(_, _, _, _)
PiecesAt(pattern, s, p, m) ==
    IF m.ok THEN << SubSeq(s, p, m.start - 1) >> \o SplitFrom(pattern, s, m.end)
    ELSE << SubSeq(s, p, Len(s)) >>

\* String.prototype.split by a pattern that matches no empty string
SplitFrom(pattern, s, p) ==
    IF p > Len(s) THEN << "" >>
    ELSE PiecesAt(pattern, s, p, SearchFrom(pattern, s, p))

Split(s, pattern) == SplitFrom(pattern, s, 1)

\* Array.prototype.join
RECURSIVE Join(_, _)
Join(pieces, separator) ==
    IF Len(pieces) = 0 THEN ""
    ELSE IF Len(pieces) = 1 THEN pieces[1]
    ELSE pieces[1] \o separator \o Join(Tail(pieces), separator)

\* String.prototype.replace with the g flag, for such a pattern
ReplaceAll(s, pattern, replacement) == Join(Split(s, pattern), replacement)

\* Array.prototype.slice(from, to), indices counted from 0
Slice(items, from, to) == SubSeq(items, from + 1, to)

\* every match of a pattern with the g flag, left to right
RECURSIVE MatchAllFrom(_, _, _)
RECURSIVE MatchesAt(_, _, _)
MatchesAt(pattern, s, m) ==
    IF m.ok THEN << Matched(s, m) >> \o MatchAllFrom(pattern, s, m.end)
    ELSE << >>

MatchAllFrom(pattern, s, p) == MatchesAt(pattern, s, SearchFrom(pattern, s, p))

MatchAll(s, pattern) == MatchAllFrom(pattern, s, 1)

(***************************************************************************)
(* ResumeParser: section splitting                                         *)
(***************************************************************************)
NewLine == << Literal("\n", FALSE) >>

\* the sectionHeaders dictionary, in Object.entries order
sectionHeaders ==
    << [type |-> "experience",
        headers |-> {"experience", "work experience", "employment",
                     "work history", "professional experience"}],
       [type |-> "education",
        headers |-> {"education", "educational background", "academic background",
                     "academic experience", "academic history"}],
       [type |-> "skills",
        headers |-> {"skills", "technical skills", "core competencies",
                     "competencies", "expertise", "proficiencies"}],
       [type |-> "projects",
        headers |-> {"projects", "personal projects", "professional projects"}],
       [type |-> "certifications",
        headers |-> {"certifications", "certificates", "licenses"}],
       [type |-> "languages",
        headers |-> {"languages", "language proficiencies"}],
       [type |-> "summary",
        headers |-> {"summary", "professional summary", "career summary",
                     "career objective", "objective"}] >>

\* headers.some(header => cleanLine === header || cleanLine === `${header}:`)
IsHeaderOf(cleanLine, headers) ==
    \E header \in headers : cleanLine = header \/ cleanLine = header \o ":"

\* the first section type one of whose headers the line is; "" when none
RECURSIVE SectionTypeFrom(_, _)
SectionTypeFrom(cleanLine, k) ==
    IF k > Len(sectionHeaders) THEN ""
    ELSE IF IsHeaderOf(cleanLine, sectionHeaders[k].headers)
    THEN sectionHeaders[k].type
    ELSE SectionTypeFrom(cleanLine, k + 1)

BoundaryOf(type, index) ==
    IF type = "" THEN << >> ELSE << [type |-> type, index |-> index] >>

\* the forEach callback on one line; index counts from 0
BoundaryAt(cleanLine, index) ==
    IF cleanLine = "" THEN << >>
    ELSE BoundaryOf(SectionTypeFrom(cleanLine, 1), index)

RECURSIVE BoundariesFrom(_, _)
BoundariesFrom(lines, i) ==
    IF i > Len(lines) THEN << >>
    ELSE BoundaryAt(ToLower(Trim(lines[i])), i - 1) \o BoundariesFrom(lines, i + 1)

\* boundaries.sort((a, b) => a.index - b.index), a stable sort
RECURSIVE InsertByIndex(_, _)
InsertByIndex(sorted, b) ==
    IF Len(sorted) = 0 THEN << b >>
    ELSE IF sorted[Len(sorted)].index - b.index > 0
    THEN InsertByIndex(SubSeq(sorted, 1, Len(sorted) - 1), b) \o << sorted[Len(sorted)] >>
    ELSE sorted \o << b >>

RECURSIVE SortByIndex(_, _, _)
SortByIndex(boundaries, i, sorted) ==
    IF i > Len(boundaries) THEN sorted
    ELSE SortByIndex(boundaries, i + 1, InsertByIndex(sorted, boundaries[i]))

findSectionBoundaries(lines) == SortByIndex(BoundariesFrom(lines, 1), 1, << >>)

\* text.replace(/\r\n/g, '\n').replace(/\r/g, '\n').replace(/\n+/g, '\n').trim()
\* variant: runs of newlines not collapsed
NormalizedText_KeepsBlankLines(text) ==
    Trim(ReplaceAll(ReplaceAll(text, << Literal("\r\n", FALSE) >>, "\n"),
                    << Literal("\r", FALSE) >>, "\n"))

NormalizedText(text) ==
    Trim(ReplaceAll(ReplaceAll(ReplaceAll(text, << Literal("\r\n", FALSE) >>, "\n"),
                               << Literal("\r", FALSE) >>, "\n"),
                    << AtLeast({"\n"}, 1) >>, "\n"))

\* sectionBoundaries[0]?.index || lines.length : an index of 0 is falsy
HeaderEnd(sectionBoundaries, lines) ==
    IF Len(sectionBoundaries) > 0 /\ sectionBoundaries[1].index # 0
    THEN sectionBoundaries[1].index
    ELSE Len(lines)

\* variant: a section already present keeps its first text
Put_KeepsFirst(sections, key, value) ==
    [k \in DOMAIN sections \cup {key} |-> IF k \in DOMAIN sections THEN sections[k] ELSE value]

\* sections[key] = value
Put(sections, key, value) ==
    [k \in DOMAIN sections \cup {key} |-> IF k = key THEN value ELSE sections[k]]

SectionEnd(sectionBoundaries, i, lines) ==
    IF i + 1 <= Len(sectionBoundaries) THEN sectionBoundaries[i + 1].index
    ELSE Len(lines)

\* the loop over the boundaries
RECURSIVE AssignSections(_, _, _, _)
AssignSections(lines, sectionBoundaries, i, sections) ==
    IF i > Len(sectionBoundaries) THEN sections
    ELSE AssignSections(lines, sectionBoundaries, i + 1,
             Put(sections, sectionBoundaries[i].type,
                 Join(Slice(lines, sectionBoundaries[i].index + 1,
                            SectionEnd(sectionBoundaries, i, lines)), "\n")))

SectionsOf(lines, sectionBoundaries) ==
    AssignSections(lines, sectionBoundaries, 1,
        [k \in {"header"} |->
            Join(Slice(lines, 0, HeaderEnd(sectionBoundaries, lines)), "\n")])

LinesOf(text) == Split(NormalizedText(text), NewLine)

SectionsOfLines(lines) == SectionsOf(lines, findSectionBoundaries(lines))

extractSections(text) == SectionsOfLines(LinesOf(text))

\* sections[key]; an absent section is undefined, which is falsy as '' is,
\* and the sub-parsers only test it with !text
SectionText(sections, key) ==
    IF key \in DOMAIN sections THEN sections[key] ELSE ""

(***************************************************************************)
(* ResumeParser: personal information                                      *)
(***************************************************************************)
Unbounded(chars) == CharClass(chars, FALSE, 0, -1, TRUE)

\* /\b[A-Za-z0-9._%+-]+@[A-Za-z0-9.-]+\.[A-Z|a-z]{2,}\b/
EmailPattern ==
    << WordBoundary,
       AtLeast(Alphanumerics \cup {".", "_", "%", "+", "-"}, 1),
       Literal("@", FALSE),
       AtLeast(Alphanumerics \cup {".", "-"}, 1),
       Literal(".", FALSE),
       AtLeast(Letters \cup {"|"}, 2),
       WordBoundary >>

\* /\(?\d{3}\)?[-.\s]?\d{3}[-.\s]?\d{4}/
PhonePattern ==
    << Optional({"("}), Exactly(Digits, 3), Optional({")"}),
       Optional({"-", "."} \cup WhitespaceChars), Exactly(Digits, 3),
       Optional({"-", "."} \cup WhitespaceChars), Exactly(Digits, 4) >>

\* /linkedin\.com\/in\/[a-zA-Z0-9-]+/
LinkedinPattern ==
    << Literal("linkedin.com/in/", FALSE), AtLeast(Alphanumerics \cup {"-"}, 1) >>

UrlPathChars ==
    Alphanumerics \cup CharsOf("-._~:/?#[]@!$&'()*+,;=")

\* /https?:\/\/(?:www\.)?[a-zA-Z0-9-]+\.[a-zA-Z0-9-.]+(\/[a-zA-Z0-9-._~:/?#[\]@!$&'()*+,;=]*)?/
WebsitePattern ==
    << Literal("http", FALSE), Optional({"s"}), Literal("://", FALSE),
       Group(<< << Literal("www.", FALSE) >> >>, 0, TRUE),
       AtLeast(Alphanumerics \cup {"-"}, 1),
       Literal(".", FALSE),
       AtLeast(Alphanumerics \cup {"-", "."}, 1),
       Group(<< << Literal("/", FALSE), Unbounded(UrlPathChars) >> >>, 1, TRUE) >>

\* /\d+\s+[A-Za-z\s,]+\d{5}/
AddressPattern ==
    << AtLeast(Digits, 1), AtLeast(WhitespaceChars, 1),
       AtLeast(Letters \cup WhitespaceChars \cup {","}, 1), Exactly(Digits, 5) >>

MatchedOrEmpty(text, m) == IF m.ok THEN Matched(text, m) ELSE ""

extractPattern(text, pattern) == MatchedOrEmpty(text, Match(text, pattern))

parsePersonalInfo(fullText, headerText) ==
    [fullName |-> OrElse(Split(Trim(headerText), NewLine)[1], ""),
     email    |-> extractPattern(fullText, EmailPattern),
     phone    |-> extractPattern(fullText, PhonePattern),
     linkedin |-> extractPattern(fullText, LinkedinPattern),
     website  |-> extractPattern(fullText, WebsitePattern),
     address  |-> extractPattern(fullText, AddressPattern)]

(***************************************************************************)
(* ResumeParser: experience                                                *)
(***************************************************************************)
\* /\n\s*\n/
BlankLinePattern ==
    << Literal("\n", FALSE), Unbounded(WhitespaceChars), Literal("\n", FALSE) >>

Alternatives(words) == [k \in 1..Len(words) |-> << Literal(words[k], TRUE) >>]

MonthNames ==
    << "Jan", "Feb", "Mar", "Apr", "May", "Jun",
       "Jul", "Aug", "Sep", "Oct", "Nov", "Dec" >>

\* (?:Jan|...|Dec)[a-z]*\.?\s+ under the i flag
MonthPrefix ==
    << Group(Alternatives(MonthNames), 0, FALSE), Unbounded(Letters),
       Optional({"."}), AtLeast(WhitespaceChars, 1) >>

\* (?:-|to|–|—) : the two dashes outside ASCII occur in no text of the model
RangeSeparator == Group(Alternatives(<< "-", "to" >>), 0, FALSE)

\* /^(.*?)\s*(?:at|,|\|)\s*(.*?)$/i
titleCompanyPattern ==
    << StartOfInput,
       Group(<< << AnyLazy >> >>, 1, FALSE),
       Unbounded(WhitespaceChars),
       Group(Alternatives(<< "at", ",", "|" >>), 0, FALSE),
       Unbounded(WhitespaceChars),
       Group(<< << AnyLazy >> >>, 2, FALSE),
       EndOfInput >>

\* /((?:Jan|...)[a-z]*\.?\s+\d{4})\s*(?:-|to|–|—)\s*((?:Jan|...)[a-z]*\.?\s+\d{4}|Present|Current)/i
experienceDatePattern ==
    << Group(<< MonthPrefix \o << Exactly(Digits, 4) >> >>, 1, FALSE),
       Unbounded(WhitespaceChars),
       RangeSeparator,
       Unbounded(WhitespaceChars),
       Group(<< MonthPrefix \o << Exactly(Digits, 4) >>,
                << Literal("Present", TRUE) >>,
                << Literal("Current", TRUE) >> >>, 2, FALSE) >>

BoolToInt(b) == IF b THEN 1 ELSE 0

SecondLineMatch(lines, pattern) ==
    IF Len(lines) > 1 THEN Match(lines[2], pattern) ELSE NoMatch

\* the body of the forEach callback once the two matches are known;
\* startDate is truthy exactly when the date pattern matched
ExperienceEntry(lines, titleCompanyMatch, dateMatch) ==
    [title |-> IF titleCompanyMatch.ok
               THEN Trim(Captured(lines[1], titleCompanyMatch, 1))
               ELSE Trim(lines[1]),
     company |-> IF titleCompanyMatch.ok
                 THEN Trim(Captured(lines[1], titleCompanyMatch, 2))
                 ELSE "",
     startDate |-> IF dateMatch.ok THEN Captured(lines[2], dateMatch, 1) ELSE "",
     endDate |-> IF dateMatch.ok THEN Captured(lines[2], dateMatch, 2) ELSE "",
     description |->
        Trim(Join(Slice(lines,
                        BoolToInt(titleCompanyMatch.ok) + BoolToInt(dateMatch.ok),
                        Len(lines)), "\n"))]

ExperienceOfLines(lines) ==
    ExperienceEntry(lines, Match(lines[1], titleCompanyPattern),
                    SecondLineMatch(lines, experienceDatePattern))

ExperienceOfBlock(block) ==
    IF Trim(block) = "" THEN << >>
    ELSE << ExperienceOfLines(Split(Trim(block), NewLine)) >>

RECURSIVE ExperiencesFrom(_, _)
ExperiencesFrom(jobBlocks, i) ==
    IF i > Len(jobBlocks) THEN << >>
    ELSE ExperienceOfBlock(jobBlocks[i]) \o ExperiencesFrom(jobBlocks, i + 1)

parseExperience(text) ==
    IF text = "" THEN << >>
    ELSE ExperiencesFrom(Split(text, BlankLinePattern), 1)

(***************************************************************************)
(* ResumeParser: education                                                 *)
(***************************************************************************)
\* /^(.*?)\s*(?:at|,|\||\s+from)\s*(.*?)$/i
degreeSchoolPattern ==
    << StartOfInput,
       Group(<< << AnyLazy >> >>, 1, FALSE),
       Unbounded(WhitespaceChars),
       Group(Alternatives(<< "at", ",", "|" >>)
               \o << << AtLeast(WhitespaceChars, 1), Literal("from", TRUE) >> >>,
             0, FALSE),
       Unbounded(WhitespaceChars),
       Group(<< << AnyLazy >> >>, 2, FALSE),
       EndOfInput >>

\* /(?:Mon\s+)?\d{4}\s*(?:-|to|–|—)\s*(?:Mon\s+)?\d{4}|Present|Current/i :
\* the alternation is at the top level of the pattern
educationDatePattern ==
    << Group(<< << Group(<< MonthPrefix >>, 0, TRUE), Exactly(Digits, 4),
                   Unbounded(WhitespaceChars), RangeSeparator,
                   Unbounded(WhitespaceChars),
                   Group(<< MonthPrefix >>, 0, TRUE), Exactly(Digits, 4) >>,
                << Literal("Present", TRUE) >>,
                << Literal("Current", TRUE) >> >>, 0, FALSE) >>

\* /\b(20\d{2}|19\d{2})\b/g
yearPattern ==
    << WordBoundary,
       Group(<< << Literal("20", FALSE), Exactly(Digits, 2) >>,
                << Literal("19", FALSE), Exactly(Digits, 2) >> >>, 1, FALSE),
       WordBoundary >>

potentialDegrees == {"bachelor", "master", "bs", "ba", "ms", "ma", "phd", "doctorate"}

\* years of the matched range; none when the pattern did not match
YearsOf(allText, dateMatch) ==
    IF dateMatch.ok THEN MatchAll(Matched(allText, dateMatch), yearPattern)
    ELSE << >>

EducationEntry(lines, degreeSchoolMatch, years) ==
    [degree |-> IF degreeSchoolMatch.ok
                THEN Trim(Captured(lines[1], degreeSchoolMatch, 1))
                ELSE IF \E d \in potentialDegrees : Contains(ToLower(lines[1]), d)
                THEN lines[1] ELSE "",
     school |-> IF degreeSchoolMatch.ok
                THEN Trim(Captured(lines[1], degreeSchoolMatch, 2))
                ELSE IF \E d \in potentialDegrees : Contains(ToLower(lines[1]), d)
                THEN "" ELSE lines[1],
     startDate |-> IF Len(years) >= 1 THEN years[1] ELSE "",
     endDate |-> IF Len(years) >= 2 THEN years[2]
                 ELSE IF Len(years) >= 1 THEN "Present" ELSE "",
     description |-> Trim(Join(Slice(lines, 1, Len(lines)), "\n"))]

EducationOfLines(lines) ==
    EducationEntry(lines, Match(lines[1], degreeSchoolPattern),
                   YearsOf(Join(lines, " "), Match(Join(lines, " "), educationDatePattern)))

EducationOfBlock(block) ==
    IF Trim(block) = "" THEN << >>
    ELSE << EducationOfLines(Split(Trim(block), NewLine)) >>

RECURSIVE EducationFrom(_, _)
EducationFrom(educationBlocks, i) ==
    IF i > Len(educationBlocks) THEN << >>
    ELSE EducationOfBlock(educationBlocks[i]) \o EducationFrom(educationBlocks, i + 1)

parseEducation(text) ==
    IF text = "" THEN << >>
    ELSE EducationFrom(Split(text, BlankLinePattern), 1)

(***************************************************************************)
(* ResumeParser: skills                                                    *)
(***************************************************************************)
\* /[,•|•·*+\n]+/ : the bullets outside ASCII occur in no text of the model
SkillDelimiters == << AtLeast({",", "|", "*", "+", "\n"}, 1) >>

\* /\s+/
WhitespaceRun == << AtLeast(WhitespaceChars, 1) >>

\* /[,.;:]/g
Punctuation == << One({",", ".", ";", ":"}) >>

RECURSIVE TrimmedNonEmpty(_, _)
TrimmedNonEmpty(pieces, i) ==
    IF i > Len(pieces) THEN << >>
    ELSE IF Len(Trim(pieces[i])) > 0
    THEN << Trim(pieces[i]) >> \o TrimmedNonEmpty(pieces, i + 1)
    ELSE TrimmedNonEmpty(pieces, i + 1)

\* words.filter(word => word.length > 2).map(word => word.trim().replace(/[,.;:]/g, ''))
RECURSIVE LongWordsCleaned(_, _)
LongWordsCleaned(words, i) ==
    IF i > Len(words) THEN << >>
    ELSE IF Len(words[i]) > 2
    THEN << ReplaceAll(Trim(words[i]), Punctuation, "") >> \o LongWordsCleaned(words, i + 1)
    ELSE LongWordsCleaned(words, i + 1)

SkillsOrWords(skills, words) ==
    IF Len(skills) < 3 /\ Len(words) > 10 THEN LongWordsCleaned(words, 1) ELSE skills

parseSkills(text) ==
    IF text = "" THEN << >>
    ELSE SkillsOrWords(TrimmedNonEmpty(Split(text, SkillDelimiters), 1),
                       Split(text, WhitespaceRun))

(***************************************************************************)
(* ResumeParser.parse                                                      *)
(***************************************************************************)
\* text.replace is a function only on a string; on null, undefined, a
\* number or a plain object the call in extractSections raises a TypeError
HasReplace(value) == value.type = "string"

Threw(operation) == [operation |-> operation, status |-> "threw", error |-> "TypeError"]

Returned(operation, result) ==
    [operation |-> operation, status |-> "returned", result |-> result]

ResumeRecord(text, sections) ==
    [personalInfo |-> parsePersonalInfo(text, sections["header"]),
     experience   |-> parseExperience(SectionText(sections, "experience")),
     education    |-> parseEducation(SectionText(sections, "education")),
     skills       |-> parseSkills(SectionText(sections, "skills")),
     rawText      |-> text]

\* the catch block logs the error and throws it again
parse(value) ==
    IF HasReplace(value)
    THEN Returned("parse", ResumeRecord(value.text, extractSections(value.text)))
    ELSE Threw("parse")

extractSectionsOf(value) ==
    IF HasReplace(value)
    THEN Returned("extractSections", extractSections(value.text))
    ELSE Threw("extractSections")

(***************************************************************************)
(* SpecParse: one call of the parser on one input                          *)
(***************************************************************************)
MaxLines == 3

ResumeLines ==
    { "Jane Doe", "Experience", "Work History:", " SKILLS: ", "Engineer at Acme",
      "Jan 2020 - Present", "Go, Rust", "" }

LineBreaks == { "\n", "\r\n" }

RECURSIVE LineSequences(_)
LineSequences(n) ==
    IF n = 0 THEN { << >> }
    ELSE { << line >> \o rest : line \in ResumeLines, rest \in LineSequences(n - 1) }

ResumeTexts ==
    { Join(lines, break) :
        lines \in UNION { LineSequences(n) : n \in 1..MaxLines },
        break \in LineBreaks }

ParseInputs ==
    { [type |-> t] : t \in {"null", "undefined", "number", "object"} }
        \cup { [type |-> "string", text |-> text] : text \in ResumeTexts }

InitParse ==
    /\ metadata = EmptyMetadata
    /\ classification = NoResult
    /\ page = NoPage
    /\ entryPoint = "none"
    /\ detected = << >>
    /\ input \in ParseInputs
    /\ outcome = NotRun
    /\ contentScript = NoContentScript
    /\ popup = NoPopup

Call(result) ==
    /\ outcome = NotRun
    /\ outcome' = result
    /\ UNCHANGED << metadata, classification, page, entryPoint, detected, input, contentScript, popup >>

Parse == Call(parse(input))

ExtractSections == Call(extractSectionsOf(input))

NextParse ==
    \/ Parse
    \/ ExtractSections

SpecParse == InitParse /\ [][NextParse]_vars

(***************************************************************************)
(* SpecEntries: parseExperience, parseEducation and parseSkills called     *)
(* directly on a section text                                              *)
(***************************************************************************)
MaxBlockLines == 3

Titles == { "Engineer", "Data Engineer" }
Companies == { "Acme Corp" }
TitleLines == { t \o " at " \o c : t \in Titles, c \in Companies }

DateStarts == { "Jan 2020", "Mar. 2019" }
DateEnds == { "Present", "February 2021" }
DateLines == { a \o " - " \o b : a \in DateStarts, b \in DateEnds }

FreeTextLines == { "Built things." }

\* an empty line and a whitespace-only line end a block
BlankLines == { "", " " }

ExperienceLines ==
    TitleLines \cup { "Acme Corp" } \cup DateLines \cup FreeTextLines \cup BlankLines

RECURSIVE LinesOver(_, _)
LinesOver(choices, n) ==
    IF n = 0 THEN { << >> }
    ELSE { << line >> \o rest : line \in choices, rest \in LinesOver(choices, n - 1) }

BlocksOver(choices) == UNION { LinesOver(choices, n) : n \in 1..MaxBlockLines }

SectionInputs(type, choices) ==
    { [type |-> type, lines |-> lines, text |-> Join(lines, "\n")] :
        lines \in BlocksOver(choices) }

EducationLines ==
    { "BS, MIT", "MIT", "Masters", "2018 - 2022", "2018 - Present",
      "Thesis on parsing", " " }

MaxSkillWords == 11

\* a sentence with fewer than three delimiter tokens
SkillsPhrase ==
    << "Skilled", "in", "Node.js,", "C;", "go", "...", "a.;", "SQL", "and",
       "Rust", "daily.", "too", "ok" >>

Padding == { "", " " }

SkillsSentences ==
    { lead \o Join(SubSeq(SkillsPhrase, 1, Min(n, Len(SkillsPhrase))), " ") \o trail :
        lead \in Padding, trail \in Padding, n \in 9..MaxSkillWords }

SkillsLists ==
    { "Python, Go, Rust", "Python, Go", "Go | Go * Rust", " Python ,, Go+Rust\n",
      "We use Go, Rust, and SQL for all of our data work" }

SkillsTexts == SkillsSentences \cup SkillsLists

EntryInputs ==
    SectionInputs("experience", ExperienceLines)
      \cup SectionInputs("education", EducationLines)
      \cup { [type |-> "skills", text |-> text] : text \in SkillsTexts }

InitEntries ==
    /\ metadata = EmptyMetadata
    /\ classification = NoResult
    /\ page = NoPage
    /\ entryPoint = "none"
    /\ detected = << >>
    /\ input \in EntryInputs
    /\ outcome = NotRun
    /\ contentScript = NoContentScript
    /\ popup = NoPopup

ParseExperience ==
    /\ input.type = "experience"
    /\ Call(Returned("parseExperience", parseExperience(input.text)))

ParseEducation ==
    /\ input.type = "education"
    /\ Call(Returned("parseEducation", parseEducation(input.text)))

ParseSkills ==
    /\ input.type = "skills"
    /\ Call(Returned("parseSkills", parseSkills(input.text)))

NextEntries ==
    \/ ParseExperience
    \/ ParseEducation
    \/ ParseSkills

SpecEntries == InitEntries /\ [][NextEntries]_vars

(***************************************************************************)
(* SpecScore: calculateConfidence and calculateMatchScore called directly  *)
(***************************************************************************)
\* (category, subcategory) arguments of calculateConfidence
ConfidencePairs ==
    { [category |-> "personal", subcategory |-> sub] :
        sub \in {"firstName", "lastName", "email", "phone", "address",
                 "city", "state", "zipCode", "country"} }
      \cup { [category |-> "education", subcategory |-> "degree"],
             [category |-> "experience", subcategory |-> "company"],
             [category |-> "unknown", subcategory |-> "unknown"] }

ConfidenceMetadata ==
    { [EmptyMetadata EXCEPT !.labelForField = b, !.required = r, !.labelText = l,
                            !.type = t, !.autocomplete = a,
                            !.id = x.id, !.name = x.name, !.options = o] :
        b \in BOOLEAN, r \in BOOLEAN, l \in {"", "e-mail"},
        t \in {"", "email", "tel"},
        a \in {"", "off", "given-name", "family-name", "email", "tel",
               "address-line1", "address-level2", "address-level1",
               "postal-code", "country"},
        x \in { [id |-> "", name |-> ""], [id |-> "email", name |-> ""],
                [id |-> "", name |-> "user_phone"], [id |-> "degree", name |-> "state"],
                [id |-> "firstname", name |-> "zipcode"] },
        o \in { << >>, << "canada", "united states" >>, << "california" >>,
                << "none", "phd" >> } }

ScoreDataAttributes ==
    UNION { [1..n -> { [key |-> "data-phone", value |-> "x"],
                       [key |-> "data-kind", value |-> "cell" ] }] :
            n \in 0..MaxDataAttributes }

ScoreMetadata ==
    { [EmptyMetadata EXCEPT !.id = i, !.name = n, !.labelText = l,
                            !.labelForField = b, !.placeholder = ph,
                            !.ariaLabel = al, !.title = ti, !.dataAttributes = d] :
        i \in {"", "telephone", "email"}, n \in {"", "cell_phone"},
        l \in {"", "mobile phone"}, b \in BOOLEAN, ph \in {"", "phone"},
        al \in {"", "telephone"}, ti \in {"", "cell"}, d \in ScoreDataAttributes }

PatternLists ==
    { << >>, << "phone", "telephone", "mobile", "cell" >>,
      << "email", "e-mail" >>, << "phone", "phone" >> }

InitScore ==
    /\ \/ /\ metadata \in ConfidenceMetadata
          /\ \E p \in ConfidencePairs :
                input = [type |-> "pair", category |-> p.category,
                         subcategory |-> p.subcategory]
       \/ /\ metadata \in ScoreMetadata
          /\ \E patterns \in PatternLists :
                input = [type |-> "patterns", patterns |-> patterns]
    /\ classification = NoResult
    /\ page = NoPage
    /\ entryPoint = "none"
    /\ detected = << >>
    /\ outcome = NotRun
    /\ contentScript = NoContentScript
    /\ popup = NoPopup

CalculateConfidence ==
    /\ input.type = "pair"
    /\ Call(Returned("calculateConfidence",
                     calculateConfidence(metadata, input.category, input.subcategory)))

CalculateMatchScore ==
    /\ input.type = "patterns"
    /\ Call(Returned("calculateMatchScore",
                     calculateMatchScore(metadata, input.patterns)))

NextScore ==
    \/ CalculateConfidence
    \/ CalculateMatchScore

SpecScore == InitScore /\ [][NextScore]_vars

(***************************************************************************)
(* Properties of the classifier (checked under Spec)                       *)
(***************************************************************************)
Analyzed == classification # NoResult

RECURSIVE ScoresFrom(_, _)
ScoresFrom(m, i) ==
    IF i > Len(Catalog) THEN << >>
    ELSE << calculateMatchScore(m, Catalog[i].patterns) >> \o ScoresFrom(m, i + 1)

\* the score of every catalog pair for the current metadata, in catalog order
Scores == ScoresFrom(metadata, 1)

MaxOf(sc) ==
    CHOOSE s \in { sc[i] : i \in 1..Len(sc) } : \A i \in 1..Len(sc) : sc[i] <= s

\* the earliest catalog pair among those with the highest score
FirstBestOf(sc) ==
    LET mx == MaxOf(sc)
    IN  CHOOSE i \in 1..Len(sc) :
            sc[i] = mx /\ \A j \in 1..(i - 1) : sc[j] < mx

ResultIs(category, subcategory) ==
    /\ classification.category = category
    /\ classification.subcategory = subcategory

NoFallbackRuleApplies ==
    /\ metadata.type \notin {"email", "tel"}
    /\ metadata.autocomplete \notin
         {"address-line1", "address-level2", "address-level1", "postal-code",
          "country"}

\* C1: a label bound by for/id whose text is exactly a trigger phrase of
\* catalog pair (C, S), with every other channel empty, is classified as
\* (C, S) with confidence at least 0.8 -- for every phrase of every pair.
C1_ExactLabelYieldsItsPair ==
    \A i \in 1..Len(Catalog) : \A j \in 1..Len(Catalog[i].patterns) :
        ( /\ Analyzed
          /\ metadata = [EmptyMetadata EXCEPT
                            !.labelText = Catalog[i].patterns[j],
                            !.labelForField = TRUE] )
        => /\ ResultIs(Catalog[i].category, Catalog[i].subcategory)
           /\ classification.confidence >= 80

EmailControlMetadata ==
    [EmptyMetadata EXCEPT !.id = "email", !.type = "email"]

EmailPairIndex ==
    CHOOSE i \in 1..Len(Catalog) :
        Catalog[i].category = "personal" /\ Catalog[i].subcategory = "email"

\* C8 as stated: for id = 'email', type = 'email' and nothing else, every
\* catalog pair scores 0, the type-based fallback assigns the result, the
\* result is personal/email and its confidence is at least 0.5.
C8_EmailControlScoresZero ==
    (Analyzed /\ metadata = EmailControlMetadata)
    => /\ LET sc == Scores IN \A i \in 1..Len(sc) : sc[i] = 0
       /\ FallbackConsulted(BestMatch(metadata, 1, UnknownMatch))
       /\ ResultIs("personal", "email")
       /\ classification.confidence >= 50

\* C8 amended: for id = 'email', type = 'email' and nothing else, the pair
\* personal/email scores 3 (the id contains 'email') and every other pair
\* scores 0; the type-based fallback is not consulted, the pattern match
\* assigns the result; the result is personal/email and its confidence is
\* at least 0.5.
C8_EmailControlMatchedByPattern ==
    (Analyzed /\ metadata = EmailControlMetadata)
    => /\ LET sc == Scores
          IN  \A i \in 1..Len(sc) : sc[i] = (IF i = EmailPairIndex THEN 3 ELSE 0)
       /\ ~FallbackConsulted(BestMatch(metadata, 1, UnknownMatch))
       /\ ResultIs("personal", "email")
       /\ classification.confidence >= 50

C8_Witness ==
    /\ Analyzed
    /\ metadata = EmailControlMetadata
    /\ ResultIs("personal", "email")

\* C9: whenever the highest catalog score is at least 3, the result is the
\* best-scoring pair, the earliest one among ties, whatever the type and
\* the autocomplete token are; the result differs from that pair only when
\* the highest score is below 3.
C9_ConfidentMatchNotOverridden ==
    Analyzed =>
        LET sc == Scores
            mx == MaxOf(sc)
            fb == Catalog[FirstBestOf(sc)]
        IN  /\ (mx >= 3 => ResultIs(fb.category, fb.subcategory))
            /\ (~ResultIs(fb.category, fb.subcategory) => mx < 3)

\* an id that scores 3 for phone on a control of type email
C9_Witness ==
    /\ Analyzed
    /\ metadata.id = "applicant_phone"
    /\ metadata.type = "email"
    /\ MaxOf(Scores) >= 3
    /\ ResultIs("personal", "phone")

\* C10: the result is unknown/unknown exactly when every pair scores 0 and
\* no type/autocomplete rule applies; metadata with no text at all gives
\* unknown/unknown with confidence 0; a positive best score below 3 with no
\* applicable rule gives that low-scoring pair.
C10_UnknownExactlyWhenNoSignal ==
    Analyzed =>
        LET sc == Scores
            mx == MaxOf(sc)
            fb == Catalog[FirstBestOf(sc)]
        IN  /\ ResultIs("unknown", "unknown") <=> (mx = 0 /\ NoFallbackRuleApplies)
            /\ (classification.category = "unknown"
                  <=> classification.subcategory = "unknown")
            /\ (metadata = EmptyMetadata
                  => ResultIs("unknown", "unknown") /\ classification.confidence = 0)
            /\ (ResultIs("unknown", "unknown") => classification.confidence = 0)
            /\ ((mx > 0 /\ mx < 3 /\ NoFallbackRuleApplies)
                  => ResultIs(fb.category, fb.subcategory))

\* a placeholder alone scores 2 for other/salary
C10_Witness ==
    /\ Analyzed
    /\ metadata.placeholder = "pay"
    /\ metadata.type = ""
    /\ MaxOf(Scores) = 2
    /\ NoFallbackRuleApplies
    /\ ResultIs("other", "salary")

(***************************************************************************)
(* Properties of the detection entry points (checked under SpecDetect)     *)
(***************************************************************************)
DetectedIndices == 1..Len(detected)

\* C2: in every detected field of every entry point, category 'unknown'
\* implies confidence 0; no adapter bonus raises it.
C2_UnknownHasZeroConfidence ==
    \A i \in DetectedIndices :
        detected[i].category = "unknown" => detected[i].confidence = 0

\* C3: the confidence of every detected field, from the generic detector
\* and from each adapter's confidence function, lies in [0, 1], also when
\* the baseline is already at 1.0 and both adapter bonuses apply.
C3_ConfidenceWithinUnitInterval ==
    \A i \in DetectedIndices :
        detected[i].confidence >= 0 /\ detected[i].confidence <= 100

\* the labelled e-mail control under Greenhouse: the baseline boosts sum to
\* 1.7, and the structure bonus and the standard-field bonus both apply
C3_Witness ==
    /\ entryPoint = "GreenhouseAdapter"
    /\ \E i \in DetectedIndices :
          /\ detected[i].metadata.greenhouseFieldId = "email_field"
          /\ detected[i].metadata.labelForField
          /\ detected[i].metadata.type = "email"
          /\ detected[i].subcategory = "email"
          /\ detected[i].confidence = 100

\* C6: every field FormDetector.detectFields returns refers to a control
\* that is not of type hidden, submit, button, file or password, is neither
\* disabled nor read-only, and whose id and name contain neither 'captcha'
\* nor 'security'.
C6_GenericDetectorSkipsIrrelevant ==
    entryPoint = "FormDetector" =>
        \A i \in DetectedIndices :
            LET control == FieldAt(page, detected[i].element)
            IN  /\ control.type \notin {"hidden", "submit", "button", "file", "password"}
                /\ ~control.disabled
                /\ ~control.readOnly
                /\ \A token \in {"captcha", "security"} :
                      ~Contains(control.id, token) /\ ~Contains(control.name, token)

\* a page holding a password input and the e-mail input: only the latter
\* is returned
C6_Witness ==
    /\ entryPoint = "FormDetector"
    /\ Len(page.main) = 2
    /\ page.main[1].type = "password"
    /\ Len(detected) = 1
    /\ detected[1].element = [doc |-> 0, index |-> 2]

\* C7: every field WorkdayAdapter.detectFields returns satisfies
\* FormDetector.isRelevantField: no password, hidden, disabled, read-only,
\* submit, button or file control is returned.
C7_WorkdayFieldsAreRelevant ==
    entryPoint = "WorkdayAdapter" =>
        \A i \in DetectedIndices :
            isRelevantField(FieldAt(page, detected[i].element))

(***************************************************************************)
(* Properties of the resume parser (checked under SpecParse)               *)
(***************************************************************************)
CallReturned(operation) ==
    /\ outcome.status = "returned"
    /\ outcome.operation = operation

CallFinished(operation) ==
    /\ outcome.status \in {"returned", "threw"}
    /\ outcome.operation = operation

EmptyPersonalInfo ==
    [fullName |-> "", email |-> "", phone |-> "",
     linkedin |-> "", website |-> "", address |-> ""]

\* C4: parse called with a non-string input (null, undefined, a number, an
\* object) returns a record with empty-string personal fields and empty
\* experience, education and skills arrays; it does not throw.
C4_NonStringYieldsEmptyRecord ==
    (CallFinished("parse") /\ input.type # "string") =>
        /\ outcome.status = "returned"
        /\ outcome.result.personalInfo = EmptyPersonalInfo
        /\ outcome.result.experience = << >>
        /\ outcome.result.education = << >>
        /\ outcome.result.skills = << >>

IsSectionHeaderLine(line) == SectionTypeFrom(ToLower(Trim(line)), 1) # ""

\* the lines strictly before the first section-header line, all of them
\* when there is none
LinesBeforeFirstHeader(lines) ==
    SubSeq(lines, 1,
           Least({ i \in 1..(Len(lines) + 1) :
                     i = Len(lines) + 1 \/ IsSectionHeaderLine(lines[i]) }) - 1)

\* C5: the header region extractSections returns is exactly the lines of the
\* normalized text that strictly precede the first section-header line,
\* joined by newline, wherever that line stands (the first line included);
\* it is the whole normalized text when no line is a section header.
C5_HeaderIsLinesBeforeFirstBoundary ==
    CallReturned("extractSections") =>
        outcome.result["header"] = Join(LinesBeforeFirstHeader(LinesOf(input.text)), "\n")

(***************************************************************************)
(* Properties of the scoring functions (checked under SpecScore)           *)
(***************************************************************************)
\* (subcategory, autocomplete token) pairs that corroborate each other
CorroboratingTokens ==
    { << "firstName", "given-name" >>, << "lastName", "family-name" >>,
      << "email", "email" >>, << "phone", "tel" >>,
      << "city", "address-level2" >>, << "state", "address-level1" >>,
      << "zipCode", "postal-code" >>, << "country", "country" >> }

Corroborates(autocomplete, subcategory) ==
    \/ << subcategory, autocomplete >> \in CorroboratingTokens
    \/ subcategory = "address" /\ Contains(autocomplete, "address-line")

\* (subcategory, option) pairs where the option is the sentinel
SentinelOptions ==
    { << "country", "united states" >>, << "state", "california" >>,
      << "degree", "bachelor" >>, << "degree", "master" >>, << "degree", "phd" >> }

When(condition, boost) == IF condition THEN boost ELSE 0

ConfidenceAsStated(m, subcategory) ==
    Min(100,
        50 + When(m.labelForField, 30)
           + When(<< subcategory, m.type >> \in { << "email", "email" >>, << "phone", "tel" >> }, 30)
           + When(Corroborates(m.autocomplete, subcategory), 30)
           + When(Contains(m.id, subcategory) \/ Contains(m.name, subcategory), 20)
           + When(m.required /\ m.labelText # "", 10)
           + When(\E k \in 1..Len(m.options) :
                     << subcategory, m.options[k] >> \in SentinelOptions, 20))

\* C11: for any metadata and any non-unknown category, calculateConfidence
\* is min(1.0, 0.5 + the sum of the boosts that apply): 0.3 for a for/id
\* label, 0.3 for type email/tel agreeing with the subcategory, 0.3 for a
\* corroborating autocomplete token, 0.2 for the subcategory name inside id
\* or name, 0.1 for required with a label text, 0.2 for a sentinel option.
\* Nothing else, the match score included, enters the value.
C11_ConfidenceIsCappedSumOfBoosts ==
    (CallReturned("calculateConfidence") /\ input.category # "unknown") =>
        outcome.result = ConfidenceAsStated(metadata, input.subcategory)

\* four boosts at once, 0.5 + 0.3 + 0.3 + 0.3 + 0.2 capped at 1.0
C11_Witness ==
    /\ CallReturned("calculateConfidence")
    /\ input.subcategory = "email"
    /\ metadata.labelForField
    /\ metadata.type = "email"
    /\ metadata.autocomplete = "email"
    /\ metadata.id = "email"
    /\ outcome.result = 100

ScoreAsStated(m, patterns) ==
    LET hits(text) == Cardinality({ j \in 1..Len(patterns) : Contains(text, patterns[j]) })
    IN    3 * hits(m.id) + 3 * hits(m.name)
        + (IF m.labelForField THEN 7 ELSE 5) * hits(m.labelText)
        + 2 * hits(m.placeholder) + 3 * hits(m.ariaLabel) + hits(m.title)
        + Cardinality({ jk \in (1..Len(patterns)) \X (1..Len(m.dataAttributes)) :
                          \/ Contains(m.dataAttributes[jk[2]].key, patterns[jk[1]])
                          \/ Contains(m.dataAttributes[jk[2]].value, patterns[jk[1]]) })

\* C12: calculateMatchScore is the sum, over every phrase of the list, of 3
\* for id, 3 for name, 5 for labelText (7 with a for/id label), 2 for
\* placeholder, 3 for ariaLabel, 1 for title and 1 per data attribute whose
\* key or value contains the phrase; a phrase that matched does not stop
\* the later ones from counting.
C12_ScoreIsSumOverAllPhrases ==
    CallReturned("calculateMatchScore") =>
        outcome.result = ScoreAsStated(metadata, input.patterns)

\* id 'telephone' contains both 'phone' and 'telephone': 3 + 3
C12_Witness ==
    /\ CallReturned("calculateMatchScore")
    /\ Len(input.patterns) = 4
    /\ metadata = [EmptyMetadata EXCEPT !.id = "telephone"]
    /\ outcome.result = 6

(***************************************************************************)
(* Properties of the adapter overlays (checked under SpecDetect)           *)
(***************************************************************************)
IsGreenhouseOverlay(f) ==
    /\ "greenhouseFieldId" \in DOMAIN f.metadata
    /\ [category |-> f.category, subcategory |-> f.subcategory]
          = categorizeGreenhouseField(f.metadata)
    /\ f.confidence = calculateGreenhouseConfidence(f.metadata, f.category, f.subcategory)

IsLeverOverlay(f) ==
    /\ "leverFieldType" \in DOMAIN f.metadata
    /\ [category |-> f.category, subcategory |-> f.subcategory]
          = categorizeLeverField(f.metadata)
    /\ f.confidence = calculateLeverConfidence(f.metadata, f.category, f.subcategory)

UnchangedOrReplaced(baseline, f, hasWrapper, isOverlay) ==
    /\ f.element = baseline.element
    /\ IF hasWrapper THEN isOverlay ELSE f = baseline

\* C13: each field the Greenhouse or the Lever adapter returns is either
\* the generic detector's field, metadata included, unchanged (no wrapper
\* around the control), or carries the adapter's own category and
\* subcategory together with the confidence the adapter's confidence
\* function gives for that very category and subcategory.
C13_OverlayReplacesWhole ==
    /\ entryPoint = "GreenhouseAdapter" =>
          \A i \in DetectedIndices :
              UnchangedOrReplaced(FormDetector_detectFields(page)[i], detected[i],
                  Greenhouse_findFieldWrapper(FieldAt(page, detected[i].element)) # << >>,
                  IsGreenhouseOverlay(detected[i]))
    /\ entryPoint = "LeverAdapter" =>
          \A i \in DetectedIndices :
              UnchangedOrReplaced(FormDetector_detectFields(page)[i], detected[i],
                  Lever_findFieldWrapper(FieldAt(page, detected[i].element)) # << >>,
                  IsLeverOverlay(detected[i]))

\* Greenhouse on the first-name input (personal/name becomes
\* personal/firstName, confidence recomputed) next to Lever's full-name
\* input, which has no Greenhouse wrapper and stays as it was
C13_Witness ==
    /\ entryPoint = "GreenhouseAdapter"
    /\ Len(detected) = 2
    /\ detected[1].subcategory = "firstName"
    /\ FormDetector_detectFields(page)[1].subcategory = "name"
    /\ detected[1].confidence # FormDetector_detectFields(page)[1].confidence
    /\ detected[2] = FormDetector_detectFields(page)[2]
    /\ "greenhouseFieldId" \notin DOMAIN detected[2].metadata

(***************************************************************************)
(* Properties of the entry parsers (checked under SpecEntries)             *)
(***************************************************************************)
\* the lines after the first two are free text
RestIsFreeText(lines) ==
    \A k \in 3..Len(lines) : lines[k] \in FreeTextLines

\* C14: on a single block 'T at C' / date range / free text D, with T and C
\* non-empty and free of commas and pipes, parseExperience returns exactly
\* one entry: title T, company C, the two sides of the range verbatim as
\* startDate and endDate, description D.
C14_TitleAtCompanyBlockParsed ==
    CallReturned("parseExperience") =>
        \A t \in Titles, c \in Companies, a \in DateStarts, b \in DateEnds :
            ( /\ Len(input.lines) >= 2
              /\ input.lines[1] = t \o " at " \o c
              /\ input.lines[2] = a \o " - " \o b
              /\ RestIsFreeText(input.lines) )
            => outcome.result =
                 << [title |-> t, company |-> c, startDate |-> a, endDate |-> b,
                     description |-> Join(SubSeq(input.lines, 3, Len(input.lines)), "\n")] >>

\* no blank or whitespace-only line: the text is one block
IsSingleBlock(lines) == \A k \in 1..Len(lines) : Trim(lines[k]) # ""

RECURSIVE LinesNotIn(_, _, _)
LinesNotIn(lines, consumed, k) ==
    IF k > Len(lines) THEN << >>
    ELSE (IF k \in consumed THEN << >> ELSE << lines[k] >>)
         \o LinesNotIn(lines, consumed, k + 1)

\* the first line, and the line of the date range when the entry has dates
ConsumedLines(lines, entry, datePattern) ==
    {1} \cup (IF entry.startDate = "" THEN {}
              ELSE { k \in 1..Len(lines) :
                       /\ Match(lines[k], datePattern).ok
                       /\ \A j \in 1..(k - 1) : ~Match(lines[j], datePattern).ok })

DescriptionIsTheRest(lines, entries, datePattern) ==
    /\ Len(entries) = 1
    /\ entries[1].description =
          Trim(Join(LinesNotIn(lines, ConsumedLines(lines, entries[1], datePattern), 1), "\n"))

\* C15: in every entry of parseExperience and of parseEducation the
\* description is the block's lines other than the first line (taken as
\* title/company or degree/school) and other than the line whose date
\* range filled startDate and endDate, joined by newline and trimmed,
\* whether or not the first line matched and whether or not there is a
\* date line.
C15_DescriptionIsUnconsumedLines ==
    /\ (CallReturned("parseExperience") /\ IsSingleBlock(input.lines)) =>
          DescriptionIsTheRest(input.lines, outcome.result, experienceDatePattern)
    /\ (CallReturned("parseEducation") /\ IsSingleBlock(input.lines)) =>
          DescriptionIsTheRest(input.lines, outcome.result, educationDatePattern)

\* the date-range lines of the education inputs, with the years they state
EducationRanges ==
    { [line |-> "2018 - 2022", startDate |-> "2018", endDate |-> "2022"],
      [line |-> "2018 - Present", startDate |-> "2018", endDate |-> "Present"] }

IsFirstRangeLine(lines, k) ==
    /\ \E r \in EducationRanges : lines[k] = r.line
    /\ \A j \in 1..(k - 1) : \A r \in EducationRanges : lines[j] # r.line

\* C16: parseEducation sets startDate and endDate to the four-digit years
\* of the block's date range, endDate being 'Present' when the range ends
\* with Present or Current ('2018 - Present' gives '2018' and 'Present');
\* both are empty only when the block has no date range.
C16_EducationDatesAreYearsOfRange ==
    (CallReturned("parseEducation") /\ IsSingleBlock(input.lines)) =>
        /\ Len(outcome.result) = 1
        /\ \A k \in 1..Len(input.lines) : \A r \in EducationRanges :
              (IsFirstRangeLine(input.lines, k) /\ input.lines[k] = r.line) =>
                  /\ outcome.result[1].startDate = r.startDate
                  /\ outcome.result[1].endDate = r.endDate
        /\ (\A k \in 1..Len(input.lines) : ~IsFirstRangeLine(input.lines, k)) =>
              /\ outcome.result[1].startDate = ""
              /\ outcome.result[1].endDate = ""

DelimiterTokens(text) == TrimmedNonEmpty(Split(text, SkillDelimiters), 1)

\* the words between whitespace; whitespace at either end of the text
\* delimits no word
WordsOf(text) == TrimmedNonEmpty(Split(text, WhitespaceRun), 1)

FallbackAsStated(text) == Len(DelimiterTokens(text)) < 3 /\ Len(WordsOf(text)) > 10

\* C17: parseSkills returns the trimmed non-empty delimiter tokens in
\* order, duplicates kept, unless the delimiter split yields fewer than
\* three tokens and the text has more than ten whitespace-separated words
\* (whitespace at the ends of the text counting as no word); the
\* whitespace fallback is used exactly when both hold.
C17_FallbackIffFewTokensAndManyWords ==
    CallReturned("parseSkills") =>
        IF FallbackAsStated(input.text)
        THEN outcome.result = LongWordsCleaned(Split(input.text, WhitespaceRun), 1)
        ELSE outcome.result = DelimiterTokens(input.text)

RECURSIVE StripTrailingPunctuation(_)
StripTrailingPunctuation(word) ==
    IF Len(word) > 0 /\ CharAt(word, Len(word)) \in {",", ".", ";", ":"}
    THEN StripTrailingPunctuation(SubSeq(word, 1, Len(word) - 1))
    ELSE word

RECURSIVE StrippedLongWords(_, _)
StrippedLongWords(words, i) ==
    IF i > Len(words) THEN << >>
    ELSE (IF Len(words[i]) > 2 THEN << StripTrailingPunctuation(words[i]) >> ELSE << >>)
         \o StrippedLongWords(words, i + 1)

FallbackTaken(text) ==
    /\ Len(TrimmedNonEmpty(Split(text, SkillDelimiters), 1)) < 3
    /\ Len(Split(text, WhitespaceRun)) > 10

\* C18: in the whitespace fallback every returned token is a whitespace
\* token of the text with only its trailing punctuation removed
\* (punctuation inside the token kept), tokens of length two or less are
\* discarded, the order is the source order, and so no returned token is
\* empty or of length two or less.
C18_FallbackTokensStrippedAndLong ==
    (CallReturned("parseSkills") /\ FallbackTaken(input.text)) =>
        /\ outcome.result = StrippedLongWords(Split(input.text, WhitespaceRun), 1)
        /\ \A i \in 1..Len(outcome.result) : Len(outcome.result[i]) > 2

(***************************************************************************)
(* Properties of the section splitter with repeated headers (checked under *)
(* SpecParse)                                                              *)
(***************************************************************************)
SectionTypeOfLine(line) == SectionTypeFrom(ToLower(Trim(line)), 1)

HeaderLines(lines) == { i \in 1..Len(lines) : IsSectionHeaderLine(lines[i]) }

HeaderLinesOf(lines, type) == { i \in HeaderLines(lines) : SectionTypeOfLine(lines[i]) = type }

Greatest(S) == CHOOSE n \in S : \A m \in S : m <= n

\* the lines after header line i up to the line before the next header line
SliceAfter(lines, i) ==
    Join(SubSeq(lines, i + 1,
                Least({ j \in HeaderLines(lines) \cup {Len(lines) + 1} : j > i }) - 1), "\n")

SectionTypesOf(lines) == { SectionTypeOfLine(lines[i]) : i \in HeaderLines(lines) }

LastHeaderWins(lines, sections) ==
    /\ DOMAIN sections = {"header"} \cup SectionTypesOf(lines)
    /\ \A type \in SectionTypesOf(lines) :
          sections[type] = SliceAfter(lines, Greatest(HeaderLinesOf(lines, type)))

\* C19: extractSections returns, for a section named by two or more header
\* lines, the lines following the last of them up to the next header line
\* or the end of the text, the slices of the earlier ones being discarded;
\* a section with one header line gets the lines after its header up to
\* the line before the next header line.
C19_LastHeaderOfSectionWins ==
    CallReturned("extractSections") => LastHeaderWins(LinesOf(input.text), outcome.result)

\* two header lines of one section whose slices differ
RepeatedHeader(lines, sections) ==
    \E i, j \in HeaderLines(lines) :
        /\ i < j
        /\ SectionTypeOfLine(lines[i]) = SectionTypeOfLine(lines[j])
        /\ lines[i] # lines[j]
        /\ SliceAfter(lines, i) # SliceAfter(lines, j)
        /\ sections[SectionTypeOfLine(lines[j])] = SliceAfter(lines, j)

C19_Witness ==
    /\ CallReturned("extractSections")
    /\ RepeatedHeader(LinesOf(input.text), outcome.result)

(***************************************************************************)
(* Round trip of the section splitter (checked under SpecParse)            *)
(***************************************************************************)
RECURSIVE TypesOf(_, _)
TypesOf(sectionBoundaries, i) ==
    IF i > Len(sectionBoundaries) THEN << >>
    ELSE << sectionBoundaries[i].type >> \o TypesOf(sectionBoundaries, i + 1)

BoundaryTypes(text) == TypesOf(findSectionBoundaries(LinesOf(text)), 1)

\* each boundary's header line followed by the text of its section
RECURSIVE HeadersReinserted(_, _, _, _)
HeadersReinserted(lines, sectionBoundaries, sections, i) ==
    IF i > Len(sectionBoundaries) THEN << >>
    ELSE << lines[sectionBoundaries[i].index + 1], sections[sectionBoundaries[i].type] >>
         \o HeadersReinserted(lines, sectionBoundaries, sections, i + 1)

Rebuilt(lines, sections) ==
    Join(<< sections["header"] >>
           \o HeadersReinserted(lines, findSectionBoundaries(lines), sections, 1), "\n")

IsNormalized(text) == NormalizedText(text) = text

\* C20: for a text that is already normalized, the text rebuilt from the
\* result of extractSections (the header region, then each boundary's
\* header line and section text in the original order) splits into the
\* same sequence of section types as the original text.
C20_RebuiltTextHasSameBoundaries ==
    (CallReturned("extractSections") /\ IsNormalized(input.text)) =>
        BoundaryTypes(Rebuilt(LinesOf(input.text), outcome.result)) = BoundaryTypes(input.text)

(***************************************************************************)
(* SpecMetadata: FormDetector.getFieldMetadata called on one control       *)
(***************************************************************************)
Label(text) ==
    [nodeName |-> "LABEL", id |-> "", classList |-> << >>,
     automationId |-> "", textContent |-> text, requiredMarker |-> FALSE]

\* the attributes of a control that only getFieldMetadata reads
OtherAttributes ==
    [className |-> "", value |-> "", ariaLabelledBy |-> "",
     ariaDescribedBy |-> "", pattern |-> ""]

\* label elements bound by for=id: none, one without text, one with text
LabelForChoices == { << >>, << "" >>, << " Email Address " >> }

AncestorChoices == { << >>, << Label(" Your Name ") >> }

\* nothing before the control; a hidden element and then a text node
SiblingChoices ==
    { << >>,
      << [nodeType |-> "element", textContent |-> "Hidden hint", visible |-> FALSE],
         [nodeType |-> "text", textContent |-> " Phone: ", visible |-> TRUE] >> }

MetadataControls ==
    { [BaseControl EXCEPT !.id = id, !.labelFor = labelFor, !.ancestors = ancestors,
          !.previousSiblings = siblings, !.placeholder = placeholder,
          !.ariaLabel = ariaLabel]
        @@ [OtherAttributes EXCEPT !.pattern = pattern] :
        id \in {"", "Email"}, labelFor \in LabelForChoices,
        ancestors \in AncestorChoices, siblings \in SiblingChoices,
        placeholder \in {"", " Enter Email "}, ariaLabel \in {"", "E-Mail "},
        pattern \in {"", "[A-Z]+"} }

\* the whole record getFieldMetadata returns, but for the numeric
\* constraints minLength and maxLength and the bounds min and max
FieldMetadataOf(field) ==
    getFieldMetadata(field)
      @@ [className |-> ToLower(field.className),
          value |-> ToLower(field.value),
          ariaLabelledBy |-> ToLower(field.ariaLabelledBy),
          ariaDescribedBy |-> ToLower(field.ariaDescribedBy),
          pattern |-> field.pattern]

InitMetadata ==
    /\ metadata = EmptyMetadata
    /\ classification = NoResult
    /\ page = NoPage
    /\ entryPoint = "none"
    /\ detected = << >>
    /\ input \in { [type |-> "control", field |-> field] : field \in MetadataControls }
    /\ outcome = NotRun
    /\ contentScript = NoContentScript
    /\ popup = NoPopup

GetFieldMetadata ==
    /\ input.type = "control"
    /\ Call(Returned("getFieldMetadata", FieldMetadataOf(input.field)))

NextMetadata == GetFieldMetadata

SpecMetadata == InitMetadata /\ [][NextMetadata]_vars

(***************************************************************************)
(* Properties of the field metadata (checked under SpecMetadata)           *)
(***************************************************************************)
\* C21: in the metadata getFieldMetadata builds, labelForField is true only
\* if labelText is the text of the label element bound to the control by
\* for/id; when labelText comes from an ancestor label or from nearby
\* preceding text, labelForField is false.
C21_LabelForFieldOnlyForBoundLabel ==
    CallReturned("getFieldMetadata") =>
        (outcome.result.labelForField =>
            /\ input.field.id # ""
            /\ input.field.labelFor # << >>
            /\ outcome.result.labelText = ToLower(Trim(input.field.labelFor[1])))

IsCaseNormalized(s) == s = ToLower(s) /\ s = Trim(s)

StringFields ==
    { "id", "name", "type", "placeholder", "className", "value", "autocomplete",
      "ariaLabel", "ariaLabelledBy", "ariaDescribedBy", "title", "labelText",
      "pattern" }

\* C22: every string field of the metadata getFieldMetadata builds (id,
\* name, type, placeholder, className, value, autocomplete, the aria
\* attributes, title, labelText, the data-attribute values, pattern and
\* the option texts) is lower-cased and has no whitespace at either end,
\* whatever case and surrounding whitespace the raw attributes have.
C22_StringFieldsLowerCasedAndTrimmed ==
    CallReturned("getFieldMetadata") =>
        /\ \A f \in StringFields : IsCaseNormalized(outcome.result[f])
        /\ \A i \in 1..Len(outcome.result.dataAttributes) :
              IsCaseNormalized(outcome.result.dataAttributes[i].value)
        /\ \A i \in 1..Len(outcome.result.options) :
              IsCaseNormalized(outcome.result.options[i])

(***************************************************************************)
(* The id/name boost and camel-case keys (checked under SpecScore)         *)
(***************************************************************************)
HasUpperCase(s) == s # ToLower(s)

\* the confidence with every boost but the one for the name in id or name
ConfidenceWithoutNameBoost(m, subcategory) ==
    Min(100,
        50 + When(m.labelForField, 30)
           + When(<< subcategory, m.type >> \in { << "email", "email" >>, << "phone", "tel" >> }, 30)
           + When(Corroborates(m.autocomplete, subcategory), 30)
           + When(m.required /\ m.labelText # "", 10)
           + When(\E k \in 1..Len(m.options) :
                     << subcategory, m.options[k] >> \in SentinelOptions, 20))

\* C30: with id and name lower-cased as getFieldMetadata builds them, the
\* +0.2 boost of calculateConfidence for the subcategory name inside id or
\* name is never applied when the subcategory key has an upper-case letter
\* (firstName, lastName, zipCode, ...); only all-lower-case keys can get it.
C30_NameBoostNeverForCamelCaseKeys ==
    ( /\ CallReturned("calculateConfidence")
      /\ input.category # "unknown"
      /\ metadata.id = ToLower(metadata.id)
      /\ metadata.name = ToLower(metadata.name)
      /\ HasUpperCase(input.subcategory) )
    => outcome.result = ConfidenceWithoutNameBoost(metadata, input.subcategory)

\* id 'firstname' classified as firstName: the key is in the id but for
\* its case, and the confidence stays at the base value
C30_Witness ==
    /\ CallReturned("calculateConfidence")
    /\ input.subcategory = "firstName"
    /\ metadata.id = "firstname"
    /\ ~metadata.labelForField
    /\ metadata.autocomplete = ""
    /\ ~metadata.required
    /\ outcome.result = 50

(***************************************************************************)
(* SpecResume: the parser called on documents with an experience and an    *)
(* education section whose entries are separated by blank lines            *)
(***************************************************************************)
MaxResumeLines == 4

ResumeDocumentLines ==
    { "Experience", "Education", "Engineer at Acme", "BS, MIT", "", " " }

RECURSIVE DocumentLines(_)
DocumentLines(n) ==
    IF n = 0 THEN { << >> }
    ELSE { << line >> \o rest : line \in ResumeDocumentLines, rest \in DocumentLines(n - 1) }

ResumeDocuments ==
    { Join(lines, break) :
        lines \in UNION { DocumentLines(n) : n \in 1..MaxResumeLines },
        break \in LineBreaks }

InitResume ==
    /\ metadata = EmptyMetadata
    /\ classification = NoResult
    /\ page = NoPage
    /\ entryPoint = "none"
    /\ detected = << >>
    /\ input \in { [type |-> "string", text |-> text] : text \in ResumeDocuments }
    /\ outcome = NotRun
    /\ contentScript = NoContentScript
    /\ popup = NoPopup

SpecResume == InitResume /\ [][NextParse]_vars

(***************************************************************************)
(* Blank lines and the block splitter (checked under SpecResume)           *)
(***************************************************************************)
\* the lines of a text as its line terminators delimit them
RawLines(text) ==
    Split(ReplaceAll(ReplaceAll(text, << Literal("\r\n", FALSE) >>, "\n"),
                     << Literal("\r", FALSE) >>, "\n"), NewLine)

HasWhitespaceOnlyLine(text) ==
    \E k \in 1..Len(RawLines(text)) :
        RawLines(text)[k] # "" /\ Trim(RawLines(text)[k]) = ""

HasEmptyLine(text) == Contains(text, "\n\n")

\* C29: no section text extractSections returns contains an empty line,
\* so inside parse the block splitter of parseExperience and
\* parseEducation can split only at whitespace-only lines: for a text
\* without whitespace-only lines parse returns at most one experience
\* entry and at most one education entry, however many blank-line
\* separated entries the section had.
C29_BlankLinesNeverSeparateEntries ==
    /\ CallReturned("extractSections") =>
          \A key \in DOMAIN outcome.result : ~HasEmptyLine(outcome.result[key])
    /\ (CallReturned("parse") /\ ~HasWhitespaceOnlyLine(input.text)) =>
          /\ Len(outcome.result.experience) <= 1
          /\ Len(outcome.result.education) <= 1

\* two entries of the experience section separated by an empty line come
\* back as one entry
C29_Witness ==
    /\ CallReturned("parse")
    /\ RawLines(input.text) = << "Experience", "Engineer at Acme", "", "Engineer at Acme" >>
    /\ Len(outcome.result.experience) = 1

(***************************************************************************)
(* Duplicates in the Workday result (checked under SpecDetect)             *)
(***************************************************************************)
\* the first entry detected for an element
FirstEntryOf(element) ==
    detected[Least({ i \in DetectedIndices : detected[i].element = element })]

\* C25: the list WorkdayAdapter.detectFields returns holds each control at
\* most once, on pages with accessible form iframes too, and for a control
\* detected both by data-automation-id and by the generic detector the
\* entry kept is the Workday one.
C25_WorkdayResultHasNoDuplicates ==
    entryPoint = "WorkdayAdapter" =>
        /\ \A i, j \in DetectedIndices :
              detected[i].element = detected[j].element => i = j
        /\ \A i \in DetectedIndices :
              WorkdayEntries(detected[i].element, FieldAt(page, detected[i].element)) # << >>
                  => FirstEntryOf(detected[i].element) =
                        WorkdayEntries(detected[i].element,
                                       FieldAt(page, detected[i].element))[1]

(***************************************************************************)
(* The content script.  Evaluating the file runs the initializer and then  *)
(* registers the message listener; the storage callbacks, the timer and    *)
(* the listener run later, one at a time, in any order the browser         *)
(* delivers them.  detectAndFillForm is a call that is only recorded.      *)
(***************************************************************************)
MaxMessages == 1

urlPatterns ==
    << "workday.com", "lever.co", "greenhouse.io", "applytojob", "applicant",
       "careers", "jobs", "application", "apply" >>

titlePatterns == << "apply", "application", "job", "career", "employment" >>

\* urlPatterns.some(pattern => url.inclued(pattern)): String has no method
\* inclued, so the first call of the arrow function throws a TypeError; the
\* title and the form elements are reached only with no URL pattern to try
isJobApplicationPage(tab) ==
    IF Len(urlPatterns) > 0
    THEN Threw("isJobApplicationPage")
    ELSE Returned("isJobApplicationPage",
                  \/ \E k \in 1..Len(titlePatterns) :
                        Contains(ToLower(tab.title), titlePatterns[k])
                  \/ tab.hasApplicationFormElements)

Tabs ==
    { [url |-> url, title |-> title, hasApplicationFormElements |-> forms] :
        url \in { "https://boards.greenhouse.io/acme/jobs/1", "https://example.com/" },
        title \in { "Apply now", "Home" },
        forms \in BOOLEAN }

\* chrome.storage.local as the content script reads it; a setting that was
\* never stored reads as undefined
Storages ==
    { [resumeData |-> data, autofillEnabled |-> enabled, highlightUncertain |-> highlight] :
        data \in { "", "resume" },
        enabled \in { "true", "false", "undefined" },
        highlight \in { "true", "false", "undefined" } }

\* the state at the start of the evaluation of the file
ContentScriptOn(tab, stored) ==
    [phase |-> "loading", tab |-> tab, stored |-> stored,
     resumeData |-> "", autofillEnabled |-> TRUE, highlightUncertain |-> TRUE,
     listening |-> FALSE, observing |-> FALSE, initialGet |-> "none", timers |-> 0,
     sent |-> << >>, inFlight |-> << >>, messageGets |-> << >>,
     runs |-> << >>, responses |-> {}, unreceived |-> {}]

\* the initializer has run and the listener is registered
RegisteredOn(tab, stored) ==
    [ContentScriptOn(tab, stored) EXCEPT
        !.phase = "loaded", !.listening = TRUE, !.observing = TRUE,
        !.initialGet = "pending"]

ContentStep(next) ==
    /\ contentScript' = next
    /\ UNCHANGED << metadata, classification, page, entryPoint, detected, input,
                    outcome, popup >>

\* the evaluation of the file: an exception the initializer does not catch
\* ends it before the listener is registered
LoadContentScript ==
    /\ contentScript.phase = "loading"
    /\ ContentStep(
          IF isJobApplicationPage(contentScript.tab).status = "threw"
          THEN [contentScript EXCEPT !.phase = "aborted"]
          ELSE IF isJobApplicationPage(contentScript.tab).result
          THEN [contentScript EXCEPT !.phase = "loaded", !.listening = TRUE,
                                     !.observing = TRUE, !.initialGet = "pending"]
          ELSE [contentScript EXCEPT !.phase = "loaded", !.listening = TRUE])

\* the popup's Fill Current Page: chrome.tabs.sendMessage with the toggle
SendFillForm ==
    /\ contentScript.phase \in {"aborted", "loaded"}
    /\ Len(contentScript.sent) < MaxMessages
    /\ \E checked \in BOOLEAN :
          ContentStep([contentScript EXCEPT
              !.sent = Append(@, checked),
              !.inFlight = Append(@, [id |-> Len(contentScript.sent) + 1,
                                      highlightUncertain |-> checked])])

RunOf(trigger, highlight) == [trigger |-> trigger, highlightUncertain |-> highlight]

\* the listener on a fillForm request
OnFillForm(cs, request) ==
    IF cs.resumeData = ""
    THEN [cs EXCEPT !.highlightUncertain = request.highlightUncertain,
                    !.messageGets = Append(@, request.id),
                    !.responses = @ \cup {request.id}]
    ELSE [cs EXCEPT !.highlightUncertain = request.highlightUncertain,
                    !.runs = Append(@, RunOf(request.id, request.highlightUncertain)),
                    !.responses = @ \cup {request.id}]

\* the browser delivers the oldest message: to the listener, or to nobody
DeliverFillForm ==
    /\ Len(contentScript.inFlight) > 0
    /\ ContentStep(
          IF contentScript.listening
          THEN OnFillForm([contentScript EXCEPT !.inFlight = Tail(@)],
                          Head(contentScript.inFlight))
          ELSE [contentScript EXCEPT !.inFlight = Tail(@),
                                     !.unreceived = @ \cup {Head(contentScript.inFlight).id}])

\* the callback of the initializer's chrome.storage.local.get
InitialStorageCallback ==
    /\ contentScript.initialGet = "pending"
    /\ ContentStep([contentScript EXCEPT
          !.initialGet = "done",
          !.resumeData = contentScript.stored.resumeData,
          !.autofillEnabled = (contentScript.stored.autofillEnabled # "false"),
          !.highlightUncertain = (contentScript.stored.highlightUncertain # "false"),
          !.timers = IF /\ contentScript.stored.resumeData # ""
                        /\ contentScript.stored.autofillEnabled # "false"
                     THEN @ + 1 ELSE @])

\* the setTimeout of the initial callback
TimerFires ==
    /\ contentScript.timers > 0
    /\ ContentStep([contentScript EXCEPT
          !.timers = @ - 1,
          !.runs = Append(@, RunOf(0, contentScript.highlightUncertain))])

\* the callback of the listener's chrome.storage.local.get('resumeData')
MessageStorageCallback ==
    /\ Len(contentScript.messageGets) > 0
    /\ ContentStep([contentScript EXCEPT
          !.messageGets = Tail(@),
          !.resumeData = contentScript.stored.resumeData,
          !.runs = Append(@, RunOf(Head(contentScript.messageGets),
                                   contentScript.highlightUncertain))])

(***************************************************************************)
(* SpecContent: the content script from the evaluation of its file.  No    *)
(* callback is ever scheduled there (CallbacksNeverScheduled), so the      *)
(* callbacks are not among its steps.                                      *)
(***************************************************************************)
InitContent ==
    /\ metadata = EmptyMetadata
    /\ classification = NoResult
    /\ page = NoPage
    /\ entryPoint = "none"
    /\ detected = << >>
    /\ input = NoInput
    /\ outcome = NotRun
    /\ contentScript \in { ContentScriptOn(tab, stored) : tab \in Tabs, stored \in Storages }
    /\ popup = NoPopup

NextContent ==
    \/ LoadContentScript
    \/ SendFillForm
    \/ DeliverFillForm

SpecContent == InitContent /\ [][NextContent]_vars

\* every step that can be taken is eventually taken
FairSpecContent ==
    /\ SpecContent
    /\ WF_vars(LoadContentScript)
    /\ WF_vars(DeliverFillForm)

CallbacksNeverScheduled ==
    /\ contentScript.initialGet = "none"
    /\ contentScript.timers = 0
    /\ contentScript.messageGets = << >>

(***************************************************************************)
(* SpecHandlers: the handlers of the content script taken as registered    *)
(***************************************************************************)
InitHandlers ==
    /\ metadata = EmptyMetadata
    /\ classification = NoResult
    /\ page = NoPage
    /\ entryPoint = "none"
    /\ detected = << >>
    /\ input = NoInput
    /\ outcome = NotRun
    /\ contentScript \in { RegisteredOn(tab, stored) : tab \in Tabs, stored \in Storages }
    /\ popup = NoPopup

NextHandlers ==
    \/ SendFillForm
    \/ DeliverFillForm
    \/ InitialStorageCallback
    \/ TimerFires
    \/ MessageStorageCallback

SpecHandlers == InitHandlers /\ [][NextHandlers]_vars

(***************************************************************************)
(* Properties of the content script                                        *)
(***************************************************************************)
Handled(id) ==
    /\ id \in contentScript.responses
    /\ \E k \in 1..Len(contentScript.runs) : contentScript.runs[k].trigger = id

\* C23: once the content script is loaded into a page, every fillForm
\* message the popup sends is eventually handled: the listener is
\* registered, detectAndFillForm is eventually invoked and a
\* {success: true} response is sent, whatever the page's URL and title.
C23_FillFormEventuallyHandled ==
    \A id \in 1..MaxMessages :
        (Len(contentScript.sent) >= id) ~> Handled(id)

MaxParseClicks == 2

NoData == [absent |-> TRUE]

FullResume ==
    [personalInfo |-> [fullName |-> "Jane Doe", email |-> "jane@acme.io",
                       phone |-> "555-0100", address |-> "",
                       linkedin |-> "linkedin.com/in/jane", website |-> ""],
     education |-> << [degree |-> "BS", school |-> "MIT", startDate |-> "2018",
                       endDate |-> "2022", description |-> ""] >>,
     experience |-> << [title |-> "Engineer", company |-> "Acme Corp",
                        startDate |-> "Jan 2020", endDate |-> "Present",
                        description |-> "Built things."] >>,
     skills |-> << "Go", "Rust" >>]

\* a resume from which only the name and one skill were parsed
BareResume ==
    [personalInfo |-> [EmptyPersonalInfo EXCEPT !.fullName = "John Roe"],
     education |-> << >>, experience |-> << >>, skills |-> << "SQL" >>]

ParsedResumes == { FullResume, BareResume }

\* the answers of the background script to 'parseResume'
ParseResponses ==
    { [success |-> TRUE, data |-> data] : data \in ParsedResumes }
      \cup { [success |-> FALSE, data |-> NoData] }

ResumeFiles == { "cv.pdf", "cv2.docx" }

EmptyForm ==
    [fullName |-> "", email |-> "", phone |-> "", address |-> "", skills |-> ""]

populateFormWithResumeData(form, data) ==
    [fullName |-> data.personalInfo.fullName,
     email |-> data.personalInfo.email,
     phone |-> data.personalInfo.phone,
     address |-> data.personalInfo.address,
     skills |-> Join(data.skills, ", ")]

RECURSIVE TrimEach(_, _)
TrimEach(pieces, i) ==
    IF i > Len(pieces) THEN << >>
    ELSE << Trim(pieces[i]) >> \o TrimEach(pieces, i + 1)

collectFormData(form) ==
    [personalInfo |-> [fullName |-> form.fullName, email |-> form.email,
                       phone |-> form.phone, address |-> form.address],
     education |-> << >>,
     experience |-> << >>,
     skills |-> TrimEach(Split(form.skills, << Literal(",", FALSE) >>), 1)]

\* the popup as DOMContentLoaded leaves it; parsed, edited, written and
\* savedUnedited record what happened, for the properties
PopupOver(resumeData, disabled) ==
    [phase |-> "open", resumeFile |-> "", uploadValue |-> "",
     parseDisabled |-> disabled,
     parseText |-> "Parse Resume", clicks |-> 0, reads |-> << >>,
     requests |-> << >>, form |-> EmptyForm, dataShown |-> FALSE,
     settingsGet |-> "pending", removes |-> 0,
     stored |-> resumeData, written |-> NoData,
     parsed |-> NoData, edited |-> FALSE, savedUnedited |-> FALSE]

PopupStep(next) ==
    /\ popup' = next
    /\ UNCHANGED << metadata, classification, page, entryPoint, detected, input,
                    outcome, contentScript >>

\* the callback of the chrome.storage.local.get at the end of the setup
LoadSavedSettings ==
    /\ popup.settingsGet = "pending"
    /\ PopupStep(
          IF popup.stored # NoData
          THEN [popup EXCEPT !.settingsGet = "done", !.dataShown = TRUE,
                             !.form = populateFormWithResumeData(popup.form, popup.stored)]
          ELSE [popup EXCEPT !.settingsGet = "done"])

\* a file chosen in the file input; both change listeners do the same
SelectFile ==
    /\ ~popup.dataShown
    /\ \E file \in ResumeFiles :
          PopupStep([popup EXCEPT !.uploadValue = file, !.resumeFile = file,
                                  !.parseDisabled = FALSE])

\* a file dropped on the upload area: the file input keeps its value
handleDrop ==
    /\ ~popup.dataShown
    /\ \E file \in ResumeFiles :
          PopupStep([popup EXCEPT !.resumeFile = file, !.parseDisabled = FALSE])

\* a disabled button gets no click
ClickParseResume ==
    /\ ~popup.dataShown
    /\ ~popup.parseDisabled
    /\ popup.resumeFile # ""
    /\ popup.clicks < MaxParseClicks
    /\ PopupStep([popup EXCEPT !.parseText = "Parsing...", !.parseDisabled = TRUE,
                               !.clicks = @ + 1,
                               !.reads = Append(@, popup.resumeFile)])

\* reader.onload: the request goes to the background script
ReaderLoaded ==
    /\ Len(popup.reads) > 0
    /\ PopupStep([popup EXCEPT !.reads = Tail(@),
                               !.requests = Append(@, [fileName |-> popup.resumeFile])])

\* the response callback of chrome.runtime.sendMessage
ParseResponse ==
    /\ Len(popup.requests) > 0
    /\ \E response \in ParseResponses :
          PopupStep(
              IF response.success
              THEN [popup EXCEPT !.requests = Tail(@),
                                 !.form = populateFormWithResumeData(popup.form, response.data),
                                 !.dataShown = TRUE,
                                 !.parsed = response.data,
                                 !.edited = FALSE,
                                 !.savedUnedited = FALSE]
              ELSE [popup EXCEPT !.requests = Tail(@),
                                 !.parseText = "Error! Please Try Again",
                                 !.parseDisabled = FALSE])

\* the user corrects the name in the form
EditForm ==
    /\ popup.dataShown
    /\ popup.form.fullName # "J. Doe"
    /\ PopupStep([popup EXCEPT !.form.fullName = "J. Doe", !.edited = TRUE])

ClickSaveData ==
    /\ popup.dataShown
    /\ popup.written # collectFormData(popup.form)
    /\ PopupStep([popup EXCEPT !.stored = collectFormData(popup.form),
                               !.written = collectFormData(popup.form),
                               !.savedUnedited = (popup.parsed # NoData /\ ~popup.edited)])

\* Reset Data, confirmed
ClickResetData ==
    /\ popup.dataShown
    /\ popup.removes = 0
    /\ PopupStep([popup EXCEPT !.removes = @ + 1, !.stored = NoData])

\* the callback of chrome.storage.local.remove
ResetCallback ==
    /\ popup.removes > 0
    /\ PopupStep([popup EXCEPT !.removes = @ - 1, !.dataShown = FALSE,
                               !.uploadValue = "",
                               !.parseText = "Parse Resume", !.parseDisabled = TRUE])

InitPopup ==
    /\ metadata = EmptyMetadata
    /\ classification = NoResult
    /\ page = NoPage
    /\ entryPoint = "none"
    /\ detected = << >>
    /\ input = NoInput
    /\ outcome = NotRun
    /\ contentScript = NoContentScript
    /\ popup \in { PopupOver(resumeData, TRUE) : resumeData \in {NoData, FullResume} }

NextPopup ==
    \/ LoadSavedSettings
    \/ SelectFile
    \/ handleDrop
    \/ ClickParseResume
    \/ ReaderLoaded
    \/ ParseResponse
    \/ EditForm
    \/ ClickSaveData
    \/ ClickResetData
    \/ ResetCallback

SpecPopup == InitPopup /\ [][NextPopup]_vars

(***************************************************************************)
(* Properties of the popup (checked under SpecPopup)                       *)
(***************************************************************************)
\* C24: after a successful Parse Resume followed by Save Data with no edit
\* in between, the resumeData written to chrome.storage.local holds the
\* parsed personal information and the parsed education and experience
\* entries; saving never replaces non-empty parsed lists by empty lists.
C24_SaveKeepsParsedEntries ==
    popup.savedUnedited =>
        /\ popup.written.personalInfo.fullName = popup.parsed.personalInfo.fullName
        /\ popup.written.personalInfo.email = popup.parsed.personalInfo.email
        /\ popup.written.personalInfo.phone = popup.parsed.personalInfo.phone
        /\ popup.written.personalInfo.address = popup.parsed.personalInfo.address
        /\ popup.written.education = popup.parsed.education
        /\ popup.written.experience = popup.parsed.experience

\* C27: at most one parseResume request is in flight at any time: from the
\* click that sends the request until its response callback runs, the
\* Parse button stays disabled, whatever file selections, drops, resets
\* and clicks come in between.
C27_OneParseRequestInFlight ==
    /\ Len(popup.reads) + Len(popup.requests) <= 1
    /\ Len(popup.reads) + Len(popup.requests) > 0 => popup.parseDisabled

(***************************************************************************)
(* The common-question handlers of the adapters.  Each handler walks the   *)
(* controls of the document; the page holds no radio button or checkbox.   *)
(***************************************************************************)
MaxQuestions == 1

ContainsAny(text, phrases) == \E p \in phrases : Contains(text, p)

\* Array.prototype.find over the options, << >> for undefined
RECURSIVE FindOption(_, _, _)
FindOption(options, phrases, i) ==
    IF i > Len(options) THEN << >>
    ELSE IF ContainsAny(ToLower(options[i].text), phrases) THEN << options[i] >>
    ELSE FindOption(options, phrases, i + 1)

\* select.value = option.value, or nothing when no option was found
SelectOption(control, found) ==
    IF found = << >> THEN control ELSE [control EXCEPT !.value = found[1].value]

\* the control lies inside an element the selector matches whose text has
\* one of the phrases
InSectionWith(control, matches(_), phrases) ==
    \E k \in 1..Len(control.ancestors) :
        /\ matches(control.ancestors[k])
        /\ ContainsAny(ToLower(control.ancestors[k].textContent), phrases)

DeclinePhrases == { "decline", "prefer not", "do not wish", "choose not" }

\* 'fieldset, div.field-group, section'
IsGreenhouseSection(node) ==
    \/ node.nodeName \in { "FIELDSET", "SECTION" }
    \/ node.nodeName = "DIV" /\ SeqIncludes(node.classList, "field-group")

\* GreenhouseAdapter.handleEEOQuestions on one control
EEOAnswered(control) ==
    IF /\ control.tagName = "SELECT"
       /\ InSectionWith(control, IsGreenhouseSection,
              { "equal employment opportunity", "eeo", "gender", "race",
                "ethnicity", "veteran status", "disability" })
    THEN SelectOption(control, FindOption(control.options, DeclinePhrases, 1))
    ELSE control

\* the salary branch of handleCommonSelectQuestions: the middle option
MiddleOptionSelected(control, labelText) ==
    IF ContainsAny(labelText, { "salary", "compensation" }) /\ Len(control.options) > 2
    THEN [control EXCEPT !.value = control.options[(Len(control.options) \div 2) + 1].value]
    ELSE control

SourceSelected(control, labelText) ==
    IF ContainsAny(labelText, { "how did you hear", "how you found", "what source" })
    THEN SelectOption(control,
             FindOption(control.options,
                        { "job board", "indeed", "linkedin", "internet search" }, 1))
    ELSE control

\* GreenhouseAdapter.handleCommonSelectQuestions on one control
CommonSelectAnswered(control) ==
    IF \/ control.tagName # "SELECT"
       \/ control.value # ""
       \/ Greenhouse_findFieldWrapper(control) = << >>
    THEN control
    ELSE MiddleOptionSelected(
             SourceSelected(control,
                 ToLower(Greenhouse_findFieldWrapper(control)[1].textContent)),
             ToLower(Greenhouse_findFieldWrapper(control)[1].textContent))

IsTextControl(control) ==
    \/ control.tagName = "INPUT" /\ control.type = "text"
    \/ control.tagName = "TEXTAREA"

\* GreenhouseAdapter.handleCommonTextQuestions on one control
CommonTextAnswered(control) ==
    IF \/ ~IsTextControl(control)
       \/ Trim(control.value) # ""
       \/ Greenhouse_findFieldWrapper(control) = << >>
    THEN control
    ELSE IF \/ control.required
            \/ SeqIncludes(Greenhouse_findFieldWrapper(control)[1].classList, "required")
            \/ Greenhouse_findFieldWrapper(control)[1].requiredMarker
    THEN control
    ELSE IF ContainsAny(ToLower(Greenhouse_findFieldWrapper(control)[1].textContent),
                        { "referral", "referred by" })
    THEN [control EXCEPT !.value = "N/A"]
    ELSE IF ContainsAny(ToLower(Greenhouse_findFieldWrapper(control)[1].textContent),
                        { "salary", "compensation" })
    THEN [control EXCEPT !.value = "Negotiable based on total compensation package"]
    ELSE control

\* LeverAdapter.handleTextareaQuestions on one control
LeverTextareaAnswered(control) ==
    IF \/ control.tagName # "TEXTAREA"
       \/ Lever_findFieldWrapper(control) = << >>
    THEN control
    ELSE IF \/ SeqIncludes(Lever_findFieldWrapper(control)[1].classList, "required")
            \/ Trim(control.value) # ""
    THEN control
    ELSE IF ContainsAny(ToLower(Lever_findFieldWrapper(control)[1].textContent),
                        { "salary", "compensation", "expected", "desired" })
    THEN [control EXCEPT !.value =
             "My salary expectations are flexible and negotiable based on the total compensation package."]
    ELSE IF ContainsAny(ToLower(Lever_findFieldWrapper(control)[1].textContent),
                        { "additional", "anything else", "other comments" })
    THEN [control EXCEPT !.value =
             "I am excited about this opportunity and look forward to discussing how my skills align with your needs."]
    ELSE control

PronounSelected(control, labelText) ==
    IF ContainsAny(labelText, { "pronoun", "gender" })
    THEN SelectOption(control, FindOption(control.options, { "prefer not", "decline" }, 1))
    ELSE control

LeverSourceSelected(control, labelText) ==
    IF ContainsAny(labelText, { "how did you hear", "how you found", "referral source" })
    THEN SelectOption(control,
             FindOption(control.options, { "job board", "indeed", "linkedin" }, 1))
    ELSE control

\* LeverAdapter.handleSelectQuestions on one control
LeverSelectAnswered(control) ==
    IF \/ control.tagName # "SELECT"
       \/ Lever_findFieldWrapper(control) = << >>
       \/ control.value # ""
    THEN control
    ELSE LeverSourceSelected(
             PronounSelected(control,
                 ToLower(Lever_findFieldWrapper(control)[1].textContent)),
             ToLower(Lever_findFieldWrapper(control)[1].textContent))

\* 'div, section, fieldset'
IsDiversitySection(node) == node.nodeName \in { "DIV", "SECTION", "FIELDSET" }

\* AdapterFactory.handleDiversityQuestions on one control
DiversityAnswered(control) ==
    IF /\ control.tagName = "SELECT"
       /\ InSectionWith(control, IsDiversitySection,
              { "equal employment opportunity", "eeo", "diversity", "gender",
                "ethnicity", "race" })
    THEN SelectOption(control, FindOption(control.options, DeclinePhrases, 1))
    ELSE control

\* the elements around a question
Around(nodeName, classList, text) ==
    [Div(classList, "", "") EXCEPT !.nodeName = nodeName, !.textContent = text]

QuestionSurroundings ==
    { << >>,
      << Around("DIV", << "field" >>, "Gender") >>,
      << Around("DIV", << "field" >>, "Gender"),
         Around("FIELDSET", << >>, "Equal Employment Opportunity Gender Race") >>,
      << Around("DIV", << "field" >>, "How did you hear about us?") >>,
      << Around("DIV", << "field" >>, "Salary expectations") >>,
      << Around("DIV", << "field", "required" >>, "Compensation") >>,
      << Around("DIV", << "question" >>, "Referred by") >>,
      << Around("DIV", << "application-field" >>, "Desired salary") >>,
      << Around("DIV", << "application-field" >>, "Anything else?") >>,
      << Around("DIV", << "input-field" >>, "Pronouns") >>,
      << Around("DIV", << "field-group" >>, "How you found us") >> }

Option(text, value) == [text |-> text, value |-> value]

QuestionOptions ==
    { << Option("Select...", ""), Option("Female", "female"),
         Option("Prefer not to say", "none"), Option("Decline to answer", "decline") >>,
      << Option("Select...", ""), Option("Friend", "friend"),
         Option("LinkedIn", "linkedin"), Option("Job board", "board") >> }

\* a select with nothing or an option chosen; a text input and a textarea,
\* empty, blank or filled in
QuestionControls ==
    { [BaseControl EXCEPT !.tagName = "SELECT", !.type = "select-one",
                          !.options = options, !.ancestors = around]
        @@ [value |-> options[k].value] :
        options \in QuestionOptions, k \in 1..2, around \in QuestionSurroundings }
    \cup
    { [BaseControl EXCEPT !.tagName = tag.tagName, !.type = tag.type,
                          !.ancestors = around]
        @@ [value |-> value] :
        tag \in { [tagName |-> "INPUT", type |-> "text"],
                  [tagName |-> "TEXTAREA", type |-> "textarea"] },
        value \in { "", " ", "80k" }, around \in QuestionSurroundings }

QuestionPages ==
    { [main |-> controls, iframes |-> << >>] :
        controls \in UNION { [1..n -> QuestionControls] : n \in 1..MaxQuestions } }

\* input keeps the document as it was before any handler ran
InitQuestions ==
    /\ metadata = EmptyMetadata
    /\ classification = NoResult
    /\ page \in QuestionPages
    /\ input = [type |-> "document", main |-> page.main]
    /\ entryPoint = "none"
    /\ detected = << >>
    /\ outcome = NotRun
    /\ contentScript = NoContentScript
    /\ popup = NoPopup

\* a handler run over every control of the document
Handle(name, answered(_)) ==
    /\ page' = [page EXCEPT !.main = [i \in 1..Len(page.main) |-> answered(page.main[i])]]
    /\ entryPoint' = name
    /\ UNCHANGED << metadata, classification, detected, input, outcome,
                    contentScript, popup >>

handleEEOQuestions == Handle("GreenhouseAdapter.handleEEOQuestions", EEOAnswered)

handleCommonSelectQuestions ==
    Handle("GreenhouseAdapter.handleCommonSelectQuestions", CommonSelectAnswered)

handleCommonTextQuestions ==
    Handle("GreenhouseAdapter.handleCommonTextQuestions", CommonTextAnswered)

handleTextareaQuestions ==
    Handle("LeverAdapter.handleTextareaQuestions", LeverTextareaAnswered)

handleSelectQuestions ==
    Handle("LeverAdapter.handleSelectQuestions", LeverSelectAnswered)

handleDiversityQuestions ==
    Handle("AdapterFactory.handleDiversityQuestions", DiversityAnswered)

NextQuestions ==
    \/ handleEEOQuestions
    \/ handleCommonSelectQuestions
    \/ handleCommonTextQuestions
    \/ handleTextareaQuestions
    \/ handleSelectQuestions
    \/ handleDiversityQuestions

SpecQuestions == InitQuestions /\ [][NextQuestions]_vars

(***************************************************************************)
(* Properties of the common-question handlers (checked under SpecQuestions)*)
(***************************************************************************)
\* C28: no common-question handler (Greenhouse handleEEOQuestions,
\* handleCommonSelectQuestions, handleCommonTextQuestions; Lever
\* handleTextareaQuestions, handleSelectQuestions; AdapterFactory
\* handleDiversityQuestions) changes the value of a select, text input or
\* textarea that holds a non-empty value before the handler runs.
C28_HandlersKeepExistingValues ==
    [][ \A i \in 1..Len(page.main) :
          page.main[i].value # "" => page'.main[i].value = page.main[i].value ]_vars

====
